---------------------------- MODULE Spec2Model ----------------------------
(***************************************************************************)
(* SafeSave toolbar (SSafeSaveToolbar): the source-control status poller,  *)
(* the two status parsers, the action gates, the status-change toast and   *)
(* the asynchronous command executor.                                      *)
(*                                                                         *)
(* Text (FString) is a sequence of one-character strings, so that          *)
(* StartsWith, RightChop, Contains, trimming and splitting are computed    *)
(* as the code computes them.                                              *)
(*                                                                         *)
(* Time (FPlatformTime::Seconds) is counted in tenths of a second.         *)
(***************************************************************************)
EXTENDS Integers, Sequences, FiniteSets, TLC

--------------------------------------------------------------------------
(* Text helpers (FString)                                                  *)

Whitespace == {" ", "\t", "\n", "\r"}

Digits == {"0", "1", "2", "3", "4", "5", "6", "7", "8", "9"}

DigitVal ==
    "0" :> 0 @@ "1" :> 1 @@ "2" :> 2 @@ "3" :> 3 @@ "4" :> 4 @@
    "5" :> 5 @@ "6" :> 6 @@ "7" :> 7 @@ "8" :> 8 @@ "9" :> 9

Max(a, b) == IF a >= b THEN a ELSE b

IsEmpty(Text) == Len(Text) = 0

\* FString::RightChop(n): the text without its first n characters.
RightChop(Text, n) == IF n >= Len(Text) THEN <<>> ELSE SubSeq(Text, n + 1, Len(Text))

\* FString::Left(n): the first n characters.
Left(Text, n) == IF n >= Len(Text) THEN Text ELSE SubSeq(Text, 1, n)

\* FString::StartsWith(prefix), case sensitive.
StartsWith(Text, Prefix) ==
    /\ Len(Text) >= Len(Prefix)
    /\ SubSeq(Text, 1, Len(Prefix)) = Prefix

\* FString::Contains(sub), case sensitive.
Contains(Text, Sub) ==
    \E i \in 1..(Len(Text) - Len(Sub) + 1) : SubSeq(Text, i, i + Len(Sub) - 1) = Sub

\* FString::FindChar / Find: 0-based index of the first occurrence, -1 (INDEX_NONE) if none.
FindChar(Text, c) ==
    IF \E i \in 1..Len(Text) : Text[i] = c
    THEN (CHOOSE i \in 1..Len(Text) : Text[i] = c /\ \A j \in 1..(i - 1) : Text[j] # c) - 1
    ELSE -1

RECURSIVE TrimStart(_)
TrimStart(Text) ==
    IF Len(Text) > 0 /\ Text[1] \in Whitespace THEN TrimStart(Tail(Text)) ELSE Text

RECURSIVE TrimEnd(_)
TrimEnd(Text) ==
    IF Len(Text) > 0 /\ Text[Len(Text)] \in Whitespace
    THEN TrimEnd(SubSeq(Text, 1, Len(Text) - 1))
    ELSE Text

\* TrimCopy: a copy with TrimStartAndEndInline applied.
TrimCopy(InText) == TrimEnd(TrimStart(InText))

RECURSIVE SplitFrom(_, _, _, _)
SplitFrom(Text, i, Cur, Delims) ==
    IF i > Len(Text) THEN <<Cur>>
    ELSE IF Text[i] \in Delims
         THEN <<Cur>> \o SplitFrom(Text, i + 1, <<>>, Delims)
         ELSE SplitFrom(Text, i + 1, Append(Cur, Text[i]), Delims)

\* FString::ParseIntoArray(Out, delimiter, bCullEmpty) for one-character delimiters.
ParseIntoArray(Text, Delims, bCullEmpty) ==
    LET Parts == SplitFrom(Text, 1, <<>>, Delims)
    IN  IF bCullEmpty THEN SelectSeq(Parts, LAMBDA p : Len(p) > 0) ELSE Parts

\* FString::ParseIntoArrayLines(Out, true): split at line ends, empty lines culled.
ParseIntoArrayLines(Text) == ParseIntoArray(Text, {"\n", "\r"}, TRUE)

RECURSIVE AtoiDigits(_, _, _)
AtoiDigits(Text, i, Acc) ==
    IF i > Len(Text) \/ Text[i] \notin Digits THEN Acc
    ELSE AtoiDigits(Text, i + 1, Acc * 10 + DigitVal[Text[i]])

\* FCString::Atoi: leading whitespace, an optional sign, then decimal digits up
\* to the first other character; 0 when there are none.  The numerals of the
\* outputs considered here have few digits, far from the int32 range.
Atoi(Text) ==
    LET T == TrimStart(Text)
    IN  IF Len(T) > 0 /\ T[1] = "-" THEN 0 - AtoiDigits(T, 2, 0)
        ELSE IF Len(T) > 0 /\ T[1] = "+" THEN AtoiDigits(T, 2, 0)
        ELSE AtoiDigits(T, 1, 0)

--------------------------------------------------------------------------
(* FSourceControlStatus and the result of one CLI call                     *)

ESourceControlProvider == {"None", "Git", "Plastic"}

\* FDateTime(): the default, unset timestamp.
FDateTimeDefault == 0

\* FSourceControlStatus(): the default-constructed status.
FSourceControlStatus ==
    [ Provider         |-> "None",
      bClientAvailable |-> FALSE,
      bRepo            |-> FALSE,
      bAuthRequired    |-> FALSE,
      bHasUpstream     |-> FALSE,
      bHasConflicts    |-> FALSE,
      Ahead            |-> 0,
      Behind           |-> 0,
      Staged           |-> 0,
      Unstaged         |-> 0,
      Untracked        |-> 0,
      Branch           |-> <<>>,
      RepoRoot         |-> <<>>,
      WorkspaceName    |-> <<>>,
      LastError        |-> <<>>,
      LastUpdateUtc    |-> FDateTimeDefault ]

\* FPlatformProcess::ExecProcess: whether the executable was launched, its exit
\* code and what it wrote.
ExecResult(launched, exit, out, err) ==
    [ launched |-> launched, ExitCode |-> exit, StdOut |-> out, StdErr |-> err ]

--------------------------------------------------------------------------
(* Git status parser                                                       *)

BranchHeadPrefix == <<"#"," ","b","r","a","n","c","h",".","h","e","a","d"," ">>
BranchUpstreamPrefix == <<"#"," ","b","r","a","n","c","h",".","u","p","s","t","r","e","a","m"," ">>
BranchAbPrefix == <<"#"," ","b","r","a","n","c","h",".","a","b"," ">>

RECURSIVE ParseGitAbSwapped(_, _, _)
\* A "# branch.ab" loop that takes "+N" for behind and "-M" for ahead.
ParseGitAbSwapped(Parts, i, Status) ==
    IF i > Len(Parts) THEN Status
    ELSE LET Part == Parts[i]
         IN  IF StartsWith(Part, <<"+">>)
             THEN ParseGitAbSwapped(Parts, i + 1, [Status EXCEPT !.Behind = Atoi(RightChop(Part, 1))])
             ELSE IF StartsWith(Part, <<"-">>)
             THEN ParseGitAbSwapped(Parts, i + 1, [Status EXCEPT !.Ahead = Atoi(RightChop(Part, 1))])
             ELSE ParseGitAbSwapped(Parts, i + 1, Status)

RECURSIVE ParseGitAb(_, _, _)
\* The loop over the parts of a "# branch.ab" line.
ParseGitAb(Parts, i, Status) ==
    IF i > Len(Parts) THEN Status
    ELSE LET Part == Parts[i]
         IN  IF StartsWith(Part, <<"+">>)
             THEN ParseGitAb(Parts, i + 1, [Status EXCEPT !.Ahead = Atoi(RightChop(Part, 1))])
             ELSE IF StartsWith(Part, <<"-">>)
             THEN ParseGitAb(Parts, i + 1, [Status EXCEPT !.Behind = Atoi(RightChop(Part, 1))])
             ELSE ParseGitAb(Parts, i + 1, Status)

\* A line parser that counts a staged change twice.
ParseGitStatusLineCountingStagedTwice(Line, Status) ==
    IF StartsWith(Line, BranchHeadPrefix)
    THEN [Status EXCEPT !.Branch = TrimCopy(RightChop(Line, 14))]
    ELSE IF StartsWith(Line, BranchUpstreamPrefix)
    THEN [Status EXCEPT !.bHasUpstream = TRUE]
    ELSE IF StartsWith(Line, BranchAbPrefix)
    THEN ParseGitAb(ParseIntoArray(TrimCopy(RightChop(Line, 12)), {" "}, TRUE), 1, Status)
    ELSE IF StartsWith(Line, <<"1", " ">>) \/ StartsWith(Line, <<"2", " ">>)
    THEN IF Len(Line) > 3
         THEN LET X == Line[3]
                  Y == Line[4]
              IN  [Status EXCEPT
                     !.Staged = (@ + (IF X # "." THEN 2 ELSE 0)),
                     !.Unstaged = (@ + (IF Y # "." THEN 1 ELSE 0)),
                     !.bHasConflicts = @ \/ X = "U" \/ Y = "U"]
         ELSE Status
    ELSE IF StartsWith(Line, <<"u", " ">>)
    THEN [Status EXCEPT !.bHasConflicts = TRUE]
    ELSE IF StartsWith(Line, <<"?", " ">>)
    THEN [Status EXCEPT !.Untracked = (@ + 1)]
    ELSE Status

\* A line parser that does not look for 'U' in the status characters of a
\* changed entry.
ParseGitStatusLineIgnoringStatusChars(Line, Status) ==
    IF StartsWith(Line, BranchHeadPrefix)
    THEN [Status EXCEPT !.Branch = TrimCopy(RightChop(Line, 14))]
    ELSE IF StartsWith(Line, BranchUpstreamPrefix)
    THEN [Status EXCEPT !.bHasUpstream = TRUE]
    ELSE IF StartsWith(Line, BranchAbPrefix)
    THEN ParseGitAb(ParseIntoArray(TrimCopy(RightChop(Line, 12)), {" "}, TRUE), 1, Status)
    ELSE IF StartsWith(Line, <<"1", " ">>) \/ StartsWith(Line, <<"2", " ">>)
    THEN IF Len(Line) > 3
         THEN LET X == Line[3]
                  Y == Line[4]
              IN  [Status EXCEPT
                     !.Staged = (@ + (IF X # "." THEN 1 ELSE 0)),
                     !.Unstaged = (@ + (IF Y # "." THEN 1 ELSE 0)),
                     !.bHasConflicts = @]
         ELSE Status
    ELSE IF StartsWith(Line, <<"u", " ">>)
    THEN [Status EXCEPT !.bHasConflicts = TRUE]
    ELSE IF StartsWith(Line, <<"?", " ">>)
    THEN [Status EXCEPT !.Untracked = (@ + 1)]
    ELSE Status

\* The body of the loop of ParseGitStatusOutput: one line of porcelain v2 output.
ParseGitStatusLine(Line, Status) ==
    IF StartsWith(Line, BranchHeadPrefix)
    THEN [Status EXCEPT !.Branch = TrimCopy(RightChop(Line, 14))]
    ELSE IF StartsWith(Line, BranchUpstreamPrefix)
    THEN [Status EXCEPT !.bHasUpstream = TRUE]
    ELSE IF StartsWith(Line, BranchAbPrefix)
    THEN ParseGitAb(ParseIntoArray(TrimCopy(RightChop(Line, 12)), {" "}, TRUE), 1, Status)
    ELSE IF StartsWith(Line, <<"1", " ">>) \/ StartsWith(Line, <<"2", " ">>)
    THEN IF Len(Line) > 3
         THEN LET X == Line[3]
                  Y == Line[4]
              IN  [Status EXCEPT
                     !.Staged = (@ + (IF X # "." THEN 1 ELSE 0)),
                     !.Unstaged = (@ + (IF Y # "." THEN 1 ELSE 0)),
                     !.bHasConflicts = @ \/ X = "U" \/ Y = "U"]
         ELSE Status
    ELSE IF StartsWith(Line, <<"u", " ">>)
    THEN [Status EXCEPT !.bHasConflicts = TRUE]
    ELSE IF StartsWith(Line, <<"?", " ">>)
    THEN [Status EXCEPT !.Untracked = (@ + 1)]
    ELSE Status

RECURSIVE ParseGitLines(_, _, _)
ParseGitLines(Lines, i, Status) ==
    IF i > Len(Lines) THEN Status
    ELSE ParseGitLines(Lines, i + 1, ParseGitStatusLine(Lines[i], Status))

ParseGitStatusOutput(Output, Status) ==
    ParseGitLines(ParseIntoArrayLines(Output), 1, Status)

GitNotFound == <<"G","i","t"," ","e","x","e","c","u","t","a","b","l","e"," ","n","o","t"," ","f","o","u","n","d",".">>

\* A TryPopulateGitStatus that gives up the repository when the status call
\* fails.
TryPopulateGitStatusGivingUpRepo(RevParse, GitStatus) ==
    LET S0 == [FSourceControlStatus EXCEPT !.Provider = "Git"]
    IN  IF ~RevParse.launched
        THEN [ OutStatus |-> [S0 EXCEPT !.bClientAvailable = FALSE, !.LastError = GitNotFound],
               OutError  |-> GitNotFound,
               found     |-> FALSE ]
        ELSE IF RevParse.ExitCode # 0
        THEN [ OutStatus |-> [S0 EXCEPT !.bClientAvailable = TRUE, !.bRepo = FALSE,
                                        !.LastError = TrimCopy(RevParse.StdErr)],
               OutError  |-> TrimCopy(RevParse.StdErr),
               found     |-> FALSE ]
        ELSE LET S1 == [S0 EXCEPT !.bClientAvailable = TRUE, !.bRepo = TRUE,
                                  !.RepoRoot = TrimCopy(RevParse.StdOut)]
             IN  IF GitStatus.launched /\ GitStatus.ExitCode = 0
                 THEN [ OutStatus |-> ParseGitStatusOutput(GitStatus.StdOut, S1),
                        OutError  |-> <<>>,
                        found     |-> TRUE ]
                 ELSE [ OutStatus |-> [S0 EXCEPT !.bClientAvailable = TRUE, !.bRepo = FALSE,
                                                 !.LastError = TrimCopy(GitStatus.StdErr)],
                        OutError  |-> TrimCopy(GitStatus.StdErr),
                        found     |-> FALSE ]

\* TryPopulateGitStatus: RevParse and GitStatus are the results of the two git
\* calls (the second is made only when the first found a repository).  The
\* result holds OutStatus, OutError and the returned flag.
TryPopulateGitStatus(RevParse, GitStatus) ==
    LET S0 == [FSourceControlStatus EXCEPT !.Provider = "Git"]
    IN  IF ~RevParse.launched
        THEN [ OutStatus |-> [S0 EXCEPT !.bClientAvailable = FALSE, !.LastError = GitNotFound],
               OutError  |-> GitNotFound,
               found     |-> FALSE ]
        ELSE IF RevParse.ExitCode # 0
        THEN [ OutStatus |-> [S0 EXCEPT !.bClientAvailable = TRUE, !.bRepo = FALSE,
                                        !.LastError = TrimCopy(RevParse.StdErr)],
               OutError  |-> TrimCopy(RevParse.StdErr),
               found     |-> FALSE ]
        ELSE LET S1 == [S0 EXCEPT !.bClientAvailable = TRUE, !.bRepo = TRUE,
                                  !.RepoRoot = TrimCopy(RevParse.StdOut)]
             IN  IF GitStatus.launched /\ GitStatus.ExitCode = 0
                 THEN [ OutStatus |-> ParseGitStatusOutput(GitStatus.StdOut, S1),
                        OutError  |-> <<>>,
                        found     |-> TRUE ]
                 ELSE [ OutStatus |-> [S1 EXCEPT !.LastError = TrimCopy(GitStatus.StdErr)],
                        OutError  |-> TrimCopy(GitStatus.StdErr),
                        found     |-> TRUE ]

--------------------------------------------------------------------------
(* Plastic SCM status parser                                               *)

LowerOf ==
    "A" :> "a" @@ "B" :> "b" @@ "C" :> "c" @@ "D" :> "d" @@ "E" :> "e" @@ "F" :> "f" @@ "G" :> "g" @@
    "H" :> "h" @@ "I" :> "i" @@ "J" :> "j" @@ "K" :> "k" @@ "L" :> "l" @@ "M" :> "m" @@ "N" :> "n" @@
    "O" :> "o" @@ "P" :> "p" @@ "Q" :> "q" @@ "R" :> "r" @@ "S" :> "s" @@ "T" :> "t" @@ "U" :> "u" @@
    "V" :> "v" @@ "W" :> "w" @@ "X" :> "x" @@ "Y" :> "y" @@ "Z" :> "z"

UpperOf ==
    "a" :> "A" @@ "b" :> "B" @@ "c" :> "C" @@ "d" :> "D" @@ "e" :> "E" @@ "f" :> "F" @@ "g" :> "G" @@
    "h" :> "H" @@ "i" :> "I" @@ "j" :> "J" @@ "k" :> "K" @@ "l" :> "L" @@ "m" :> "M" @@ "n" :> "N" @@
    "o" :> "O" @@ "p" :> "P" @@ "q" :> "Q" @@ "r" :> "R" @@ "s" :> "S" @@ "t" :> "T" @@ "u" :> "U" @@
    "v" :> "V" @@ "w" :> "W" @@ "x" :> "X" @@ "y" :> "Y" @@ "z" :> "Z"

ToLower(Text) == [i \in 1..Len(Text) |-> IF Text[i] \in DOMAIN LowerOf THEN LowerOf[Text[i]] ELSE Text[i]]

ToUpper(Text) == [i \in 1..Len(Text) |-> IF Text[i] \in DOMAIN UpperOf THEN UpperOf[Text[i]] ELSE Text[i]]

\* FString::Equals(other, ESearchCase::IgnoreCase)
EqualsIgnoreCase(Text, Other) == ToLower(Text) = ToLower(Other)

\* FString::StartsWith(prefix, ESearchCase::IgnoreCase)
StartsWithIgnoreCase(Text, Prefix) == StartsWith(ToLower(Text), ToLower(Prefix))

RECURSIVE RemoveAll(_, _)
\* FString::ReplaceInline(Sub, ""): every occurrence of Sub removed, left to right.
RemoveAll(Text, Sub) ==
    IF Len(Text) < Len(Sub) \/ Len(Sub) = 0 THEN Text
    ELSE IF SubSeq(Text, 1, Len(Sub)) = Sub THEN RemoveAll(RightChop(Text, Len(Sub)), Sub)
    ELSE <<Text[1]>> \o RemoveAll(Tail(Text), Sub)

PlasticFieldSeparator == "|"
PlasticLineStart == <<"@","@","S","A","F","E","@","@">>
PlasticLineEnd == <<"#","#","S","A","F","E","#","#">>

\* The substrings IsPlasticAuthError looks for in the lower-cased text.
PlasticAuthIndicators ==
    { <<"l","o","g","i","n">>,
      <<"l","o","g"," ","i","n">>,
      <<"a","u","t","h","e","n","t","i","c","a","t","i","o","n">>,
      <<"c","r","e","d","e","n","t","i","a","l">>,
      <<"u","n","a","u","t","h","o","r","i","z","e","d">>,
      <<"n","o","t"," ","a","u","t","h","o","r","i","z","e","d">>,
      <<"a","c","c","e","s","s"," ","d","e","n","i","e","d">>,
      <<"t","o","k","e","n">>,
      <<"e","x","p","i","r","e","d">> }

IsPlasticAuthError(Text) ==
    LET Lower == ToLower(Text)
    IN  \E Sub \in PlasticAuthIndicators : Contains(Lower, Sub)

\* TrimCopy(StdErr + TEXT("\n") + StdOut)
CombinedOutput(Result) == TrimCopy(Result.StdErr \o <<"\n">> \o Result.StdOut)

PlasticNotFound == <<"P","l","a","s","t","i","c"," ","S","C","M"," ","C","L","I"," ","n","o","t"," ","f","o","u","n","d",".">>
PlasticLoginRequired == <<"P","l","a","s","t","i","c"," ","S","C","M"," ","l","o","g","i","n"," ","r","e","q","u","i","r","e","d",".">>
PlasticRootNotFound == <<"P","l","a","s","t","i","c"," ","S","C","M"," ","w","o","r","k","s","p","a","c","e"," ","r","o","o","t"," ","n","o","t"," ","f","o","u","n","d",".">>

RECURSIVE ParsePlasticInfoLines(_, _, _)
\* The loop over the lines of "workspaceinfo": the first line starting with
\* "Branch" that holds a ':' (or else a '=') gives the branch.
ParsePlasticInfoLines(Lines, i, Status) ==
    IF i > Len(Lines) THEN Status
    ELSE LET Trimmed == TrimCopy(Lines[i])
             SplitIndex == IF FindChar(Trimmed, ":") # -1 THEN FindChar(Trimmed, ":")
                           ELSE FindChar(Trimmed, "=")
         IN  IF StartsWith(Trimmed, <<"B","r","a","n","c","h">>) /\ SplitIndex # -1
             THEN [Status EXCEPT !.Branch = TrimCopy(RightChop(Trimmed, SplitIndex + 1))]
             ELSE ParsePlasticInfoLines(Lines, i + 1, Status)

\* FRegexMatcher(Prefix(\d+), Line).FindNext() and Atoi of capture group 1:
\* the number after the first occurrence of Prefix that a digit follows;
\* Default when the line has no match.
RegexNumber(Line, Prefix, Default) ==
    LET Hits == { i \in 1..Len(Line) :
                     /\ i + Len(Prefix) <= Len(Line)
                     /\ SubSeq(Line, i, i + Len(Prefix) - 1) = Prefix
                     /\ Line[i + Len(Prefix)] \in Digits }
    IN  IF Hits = {} THEN Default
        ELSE LET First == CHOOSE i \in Hits : \A j \in Hits : i <= j
             IN  (AtoiDigits(Line, First + Len(Prefix), 0))

\* The branch a header line gives when no branch is known yet: the text before
\* '(' trimmed, when it starts with "/" or "lb:", cut at the first '@'.
PlasticHeaderBranch(Line, Branch) ==
    IF ~IsEmpty(Branch) THEN Branch
    ELSE LET ParenIndex == FindChar(Line, "(")
             Left0 == TrimCopy(IF ParenIndex # -1 THEN Left(Line, ParenIndex) ELSE Line)
             AtIndex == FindChar(Left0, "@")
         IN  IF StartsWith(Left0, <<"/">>) \/ StartsWithIgnoreCase(Left0, <<"l","b",":">>)
             THEN TrimCopy(IF AtIndex # -1 THEN Left(Left0, AtIndex) ELSE Left0)
             ELSE Branch

RECURSIVE ParsePlasticHeaderLines(_, _, _)
\* The loop over the lines of "status --header --head"; Acc holds
\* CurrentChangeset, HeadChangeset and the branch.
ParsePlasticHeaderLines(Lines, i, Acc) ==
    IF i > Len(Lines) THEN Acc
    ELSE ParsePlasticHeaderLines(Lines, i + 1,
            [ CurrentChangeset |-> RegexNumber(Lines[i], <<"c","s",":">>, Acc.CurrentChangeset),
              HeadChangeset    |-> RegexNumber(Lines[i], <<"h","e","a","d",":">>, Acc.HeadChangeset),
              Branch           |-> PlasticHeaderBranch(Lines[i], Acc.Branch) ])

\* A header parse that takes the differences of the changesets as they are.
ParsePlasticHeaderWithoutClamp(Output, Status) ==
    LET Acc == ParsePlasticHeaderLines(ParseIntoArrayLines(Output), 1,
                  [ CurrentChangeset |-> -1, HeadChangeset |-> -1, Branch |-> Status.Branch ])
        S1 == [Status EXCEPT !.Branch = Acc.Branch]
    IN  IF Acc.CurrentChangeset >= 0 /\ Acc.HeadChangeset >= 0
        THEN [S1 EXCEPT !.bHasUpstream = TRUE,
                        !.Behind = Acc.HeadChangeset - Acc.CurrentChangeset,
                        !.Ahead = Acc.CurrentChangeset - Acc.HeadChangeset]
        ELSE S1

\* The bHeaderOk branch of TryPopulatePlasticStatus.
ParsePlasticHeader(Output, Status) ==
    LET Acc == ParsePlasticHeaderLines(ParseIntoArrayLines(Output), 1,
                  [ CurrentChangeset |-> -1, HeadChangeset |-> -1, Branch |-> Status.Branch ])
        S1 == [Status EXCEPT !.Branch = Acc.Branch]
    IN  IF Acc.CurrentChangeset >= 0 /\ Acc.HeadChangeset >= 0
        THEN [S1 EXCEPT !.bHasUpstream = TRUE,
                        !.Behind = Max(0, (Acc.HeadChangeset - Acc.CurrentChangeset)),
                        !.Ahead = Max(0, (Acc.CurrentChangeset - Acc.HeadChangeset))]
        ELSE S1

\* One line of the machine-readable status: what it adds to ChangeCount,
\* UntrackedCount and bHasConflicts.
ParsePlasticStatusLine(Line, Acc) ==
    LET CleanLine == TrimCopy(RemoveAll(RemoveAll(Line, PlasticLineStart), PlasticLineEnd))
        Fields == ParseIntoArray(CleanLine, {PlasticFieldSeparator}, FALSE)
        Code == TrimCopy(Fields[1])
        CodeParts == ParseIntoArray(Code, {"+"}, TRUE)
        bPrivate == \E k \in 1..Len(CodeParts) : EqualsIgnoreCase(CodeParts[k], <<"P","R">>)
        bConflict == \E k \in 1..Len(Fields) :
                        LET UpperField == ToUpper(Fields[k])
                        IN  \/ Contains(UpperField, <<"C","O","N","F","L","I","C","T">>)
                            \/ /\ Contains(UpperField, <<"M","E","R","G","E">>)
                               /\ ~Contains(UpperField, <<"N","O","_","M","E","R","G","E","S">>)
    IN  IF IsEmpty(CleanLine) THEN Acc
        ELSE IF EqualsIgnoreCase(Code, <<"S","T","A","T","U","S">>) THEN Acc
        ELSE [ ChangeCount    |-> (Acc.ChangeCount + 1),
               UntrackedCount |-> (Acc.UntrackedCount + (IF bPrivate THEN 1 ELSE 0)),
               bHasConflicts  |-> Acc.bHasConflicts \/ bConflict ]

RECURSIVE ParsePlasticLines(_, _, _)
ParsePlasticLines(Lines, i, Acc) ==
    IF i > Len(Lines) THEN Acc
    ELSE ParsePlasticLines(Lines, i + 1, ParsePlasticStatusLine(Lines[i], Acc))

ParsePlasticStatusOutput(Output, Status) ==
    LET Acc == ParsePlasticLines(ParseIntoArrayLines(Output), 1,
                  [ ChangeCount |-> 0, UntrackedCount |-> 0, bHasConflicts |-> FALSE ])
    IN  [Status EXCEPT !.Untracked = Acc.UntrackedCount,
                       !.Unstaged = Max(0, (Acc.ChangeCount - Acc.UntrackedCount)),
                       !.bHasConflicts = Acc.bHasConflicts]

\* The last call of TryPopulatePlasticStatus: the machine-readable status.
PlasticStatusStep(St, S) ==
    IF St.launched /\ St.ExitCode = 0
    THEN [ OutStatus |-> ParsePlasticStatusOutput(St.StdOut, S), OutError |-> <<>>, found |-> TRUE ]
    ELSE IF IsPlasticAuthError(CombinedOutput(St))
    THEN [ OutStatus |-> [S EXCEPT !.bAuthRequired = TRUE, !.LastError = CombinedOutput(St)],
           OutError  |-> PlasticLoginRequired,
           found     |-> TRUE ]
    ELSE [ OutStatus |-> [S EXCEPT !.LastError = TrimCopy(St.StdErr)],
           OutError  |-> TrimCopy(St.StdErr),
           found     |-> TRUE ]

\* A third call that takes a login failure for a missing workspace.
PlasticHeaderStepAuthNoRepo(Header, St, S) ==
    IF Header.launched /\ Header.ExitCode = 0
    THEN PlasticStatusStep(St, ParsePlasticHeader(Header.StdOut, S))
    ELSE IF IsPlasticAuthError(CombinedOutput(Header))
    THEN [ OutStatus |-> [S EXCEPT !.bRepo = FALSE, !.bAuthRequired = TRUE,
                                   !.LastError = CombinedOutput(Header)],
           OutError  |-> PlasticLoginRequired,
           found     |-> TRUE ]
    ELSE PlasticStatusStep(St, S)

\* A third call that, on a login failure, answers with a fresh status and
\* drops what the earlier calls gave.
PlasticHeaderStepDiscardingPartial(Header, St, S) ==
    IF Header.launched /\ Header.ExitCode = 0
    THEN PlasticStatusStep(St, ParsePlasticHeader(Header.StdOut, S))
    ELSE IF IsPlasticAuthError(CombinedOutput(Header))
    THEN [ OutStatus |-> [FSourceControlStatus EXCEPT
                             !.Provider = "Plastic", !.bClientAvailable = TRUE, !.bRepo = TRUE,
                             !.bAuthRequired = TRUE, !.LastError = CombinedOutput(Header)],
           OutError  |-> PlasticLoginRequired,
           found     |-> TRUE ]
    ELSE PlasticStatusStep(St, S)

\* The third call: "status --header --head", then the last call.
PlasticHeaderStep(Header, St, S) ==
    IF Header.launched /\ Header.ExitCode = 0
    THEN PlasticStatusStep(St, ParsePlasticHeader(Header.StdOut, S))
    ELSE IF IsPlasticAuthError(CombinedOutput(Header))
    THEN [ OutStatus |-> [S EXCEPT !.bAuthRequired = TRUE, !.LastError = CombinedOutput(Header)],
           OutError  |-> PlasticLoginRequired,
           found     |-> TRUE ]
    ELSE PlasticStatusStep(St, S)

\* The second call: "workspaceinfo", then the remaining calls.
PlasticInfoStep(Info, Header, St, S) ==
    IF Info.launched /\ Info.ExitCode = 0
    THEN PlasticHeaderStep(Header, St, ParsePlasticInfoLines(ParseIntoArrayLines(Info.StdOut), 1, S))
    ELSE IF IsPlasticAuthError(CombinedOutput(Info))
    THEN [ OutStatus |-> [S EXCEPT !.bAuthRequired = TRUE, !.LastError = CombinedOutput(Info)],
           OutError  |-> PlasticLoginRequired,
           found     |-> TRUE ]
    ELSE PlasticHeaderStep(Header, St, S)

\* TryPopulatePlasticStatus: Ws, Info, Header and St are the results of
\* getworkspacefrompath, workspaceinfo, status --header --head and the
\* machine-readable status (each used only if the call is reached).
TryPopulatePlasticStatus(Ws, Info, Header, St) ==
    LET S0 == [FSourceControlStatus EXCEPT !.Provider = "Plastic"]
        Parts == ParseIntoArray(TrimCopy(Ws.StdOut), {"|"}, TRUE)
        WorkspaceName == IF Len(Parts) >= 2 THEN TrimCopy(Parts[1]) ELSE <<>>
        WorkspaceRoot == IF Len(Parts) >= 2 THEN TrimCopy(Parts[2]) ELSE <<>>
    IN  IF ~Ws.launched
        THEN [ OutStatus |-> [S0 EXCEPT !.bClientAvailable = FALSE, !.LastError = PlasticNotFound],
               OutError  |-> PlasticNotFound,
               found     |-> FALSE ]
        ELSE IF Ws.ExitCode # 0 \/ IsEmpty(Ws.StdOut)
        THEN IF IsPlasticAuthError(CombinedOutput(Ws))
             THEN [ OutStatus |-> [S0 EXCEPT !.bClientAvailable = TRUE, !.bRepo = FALSE,
                                             !.bAuthRequired = TRUE,
                                             !.LastError = CombinedOutput(Ws)],
                    OutError  |-> PlasticLoginRequired,
                    found     |-> FALSE ]
             ELSE [ OutStatus |-> [S0 EXCEPT !.bClientAvailable = TRUE, !.bRepo = FALSE,
                                             !.LastError = TrimCopy(Ws.StdErr)],
                    OutError  |-> TrimCopy(Ws.StdErr),
                    found     |-> FALSE ]
        ELSE IF IsEmpty(WorkspaceRoot)
        THEN [ OutStatus |-> [S0 EXCEPT !.bClientAvailable = TRUE, !.bRepo = FALSE,
                                        !.LastError = PlasticRootNotFound],
               OutError  |-> PlasticRootNotFound,
               found     |-> FALSE ]
        ELSE PlasticInfoStep(Info, Header, St,
                [S0 EXCEPT !.bClientAvailable = TRUE, !.bRepo = TRUE,
                           !.RepoRoot = WorkspaceRoot, !.WorkspaceName = WorkspaceName])

--------------------------------------------------------------------------
(* Provider resolver                                                       *)

\* GetPreferredProvider: bEnabled is ISourceControlModule::IsEnabled() and
\* ProviderName the active provider's name.
GetPreferredProvider(bEnabled, ProviderName) ==
    LET Name == ToLower(ProviderName)
    IN  IF bEnabled /\ (Contains(Name, <<"p","l","a","s","t","i","c">>) \/ Contains(Name, <<"u","n","i","t","y">>))
        THEN "Plastic"
        ELSE IF bEnabled /\ Contains(Name, <<"g","i","t">>)
        THEN "Git"
        ELSE "None"

\* The error lines of the combined status: "Git: ..." and "Plastic SCM: ...",
\* joined by a newline.
JoinErrors(GitError, PlasticError) ==
    LET G == IF ~IsEmpty(GitError) THEN <<<<"G","i","t",":"," ">> \o GitError>> ELSE <<>>
        P == IF ~IsEmpty(PlasticError)
             THEN <<<<"P","l","a","s","t","i","c"," ","S","C","M",":"," ">> \o PlasticError>>
             ELSE <<>>
        Errors == G \o P
    IN  IF Len(Errors) = 0 THEN <<>>
        ELSE IF Len(Errors) = 1 THEN Errors[1]
        ELSE Errors[1] \o <<"\n">> \o Errors[2]

\* A combined status that carries over the login flag of the Plastic probe.
ProbeSequenceCombiningAuth(PreferredProvider, UtcNow, Cli) ==
    LET Git == TryPopulateGitStatus(Cli.RevParse, Cli.GitStatus)
        Plastic == TryPopulatePlasticStatus(Cli.Ws, Cli.Info, Cli.Header, Cli.St)
    IN  IF PreferredProvider = "Plastic" THEN Plastic.OutStatus
        ELSE IF PreferredProvider = "Git" THEN Git.OutStatus
        ELSE IF Git.found THEN Git.OutStatus
        ELSE IF Plastic.found THEN Plastic.OutStatus
        ELSE [FSourceControlStatus EXCEPT
                !.Provider = "None",
                !.bClientAvailable = Git.OutStatus.bClientAvailable \/ Plastic.OutStatus.bClientAvailable,
                !.bRepo = FALSE,
                !.bAuthRequired = Plastic.OutStatus.bAuthRequired,
                !.LastError = JoinErrors(Git.OutError, Plastic.OutError)]

\* A probe sequence that turns to the other tool when the preferred one finds
\* no repository.
ProbeSequenceFallingBack(PreferredProvider, UtcNow, Cli) ==
    LET Git == TryPopulateGitStatus(Cli.RevParse, Cli.GitStatus)
        Plastic == TryPopulatePlasticStatus(Cli.Ws, Cli.Info, Cli.Header, Cli.St)
    IN  IF PreferredProvider = "Plastic"
        THEN (IF ~Plastic.found /\ Git.found THEN Git.OutStatus ELSE Plastic.OutStatus)
        ELSE IF PreferredProvider = "Git"
        THEN (IF ~Git.found /\ Plastic.found THEN Plastic.OutStatus ELSE Git.OutStatus)
        ELSE IF Git.found THEN Git.OutStatus
        ELSE IF Plastic.found THEN Plastic.OutStatus
        ELSE [FSourceControlStatus EXCEPT
                !.Provider = "None",
                !.bClientAvailable = Git.OutStatus.bClientAvailable \/ Plastic.OutStatus.bClientAvailable,
                !.bRepo = FALSE,
                !.LastError = JoinErrors(Git.OutError, Plastic.OutError)]

\* A probe sequence that, without a preference, takes Plastic before Git.
ProbeSequencePlasticFirst(PreferredProvider, UtcNow, Cli) ==
    LET Git == TryPopulateGitStatus(Cli.RevParse, Cli.GitStatus)
        Plastic == TryPopulatePlasticStatus(Cli.Ws, Cli.Info, Cli.Header, Cli.St)
    IN  IF PreferredProvider = "Plastic" THEN Plastic.OutStatus
        ELSE IF PreferredProvider = "Git" THEN Git.OutStatus
        ELSE IF Plastic.found THEN Plastic.OutStatus
        ELSE IF Git.found THEN Git.OutStatus
        ELSE [FSourceControlStatus EXCEPT
                !.Provider = "None",
                !.bClientAvailable = Git.OutStatus.bClientAvailable \/ Plastic.OutStatus.bClientAvailable,
                !.bRepo = FALSE,
                !.LastError = JoinErrors(Git.OutError, Plastic.OutError)]

\* The worker of StartSourceControlStatusUpdate: the status one poll produces.
\* UtcNow is the wall clock when the worker starts; Cli holds the results of
\* the CLI calls the probe sequence may make.
ProbeSequence(PreferredProvider, UtcNow, Cli) ==
    LET NewStatus0 == [FSourceControlStatus EXCEPT !.LastUpdateUtc = UtcNow]
        Git == TryPopulateGitStatus(Cli.RevParse, Cli.GitStatus)
        Plastic == TryPopulatePlasticStatus(Cli.Ws, Cli.Info, Cli.Header, Cli.St)
    IN  IF PreferredProvider = "Plastic" THEN Plastic.OutStatus
        ELSE IF PreferredProvider = "Git" THEN Git.OutStatus
        ELSE IF Git.found THEN Git.OutStatus
        ELSE IF Plastic.found THEN Plastic.OutStatus
        ELSE [FSourceControlStatus EXCEPT
                !.Provider = "None",
                !.bClientAvailable = Git.OutStatus.bClientAvailable \/ Plastic.OutStatus.bClientAvailable,
                !.bRepo = FALSE,
                !.LastError = JoinErrors(Git.OutError, Plastic.OutError)]

\* One RunGit / RunPlastic call: the executable, what it was asked and what it
\* returned.
Call(Exe, Args, Result) == [Exe |-> Exe, Args |-> Args, Result |-> Result]

\* The RunGit calls TryPopulateGitStatus makes, in order: the status call
\* follows a rev-parse that was launched and exited with 0.
GitCalls(RevParse, GitStatus) ==
    <<Call("git", "rev-parse --show-toplevel", RevParse)>>
    \o (IF RevParse.launched /\ RevParse.ExitCode = 0
        THEN <<Call("git", "status --porcelain=v2 -b", GitStatus)>>
        ELSE <<>>)

\* WorkspaceRoot as TryPopulatePlasticStatus takes it from the output of
\* getworkspacefrompath: the second part of "name|path".
WorkspaceRootOf(StdOut) ==
    LET Parts == ParseIntoArray(TrimCopy(StdOut), {"|"}, TRUE)
    IN  IF Len(Parts) >= 2 THEN TrimCopy(Parts[2]) ELSE <<>>

\* The RunPlastic calls TryPopulatePlasticStatus makes, in order:
\* workspaceinfo follows a first call that was launched, exited with 0 and
\* gave a workspace root; each later call follows unless the call before it
\* failed with a login error.
PlasticCalls(Ws, Info, Header, St) ==
    LET bRoot == /\ Ws.launched /\ Ws.ExitCode = 0 /\ ~IsEmpty(Ws.StdOut)
                 /\ ~IsEmpty(WorkspaceRootOf(Ws.StdOut))
        bInfoOk == Info.launched /\ Info.ExitCode = 0
        bHeaderOk == Header.launched /\ Header.ExitCode = 0
        bHeader == bRoot /\ (bInfoOk \/ ~IsPlasticAuthError(CombinedOutput(Info)))
        bStatus == bHeader /\ (bHeaderOk \/ ~IsPlasticAuthError(CombinedOutput(Header)))
    IN  <<Call("cm", "getworkspacefrompath", Ws)>>
        \o (IF bRoot THEN <<Call("cm", "workspaceinfo", Info)>> ELSE <<>>)
        \o (IF bHeader THEN <<Call("cm", "status --header --head", Header)>> ELSE <<>>)
        \o (IF bStatus THEN <<Call("cm", "status --machinereadable", St)>> ELSE <<>>)

\* The calls one probe sequence makes, in order.
ProbeCalls(PreferredProvider, Cli) ==
    LET bGitRepoFound == Cli.RevParse.launched /\ Cli.RevParse.ExitCode = 0
    IN  IF PreferredProvider = "Plastic"
        THEN PlasticCalls(Cli.Ws, Cli.Info, Cli.Header, Cli.St)
        ELSE IF PreferredProvider = "Git" \/ bGitRepoFound
        THEN GitCalls(Cli.RevParse, Cli.GitStatus)
        ELSE GitCalls(Cli.RevParse, Cli.GitStatus)
             \o PlasticCalls(Cli.Ws, Cli.Info, Cli.Header, Cli.St)

--------------------------------------------------------------------------
(* The toolbar widget                                                      *)

VARIABLES
    SourceControlStatus,            \* the status snapshot
    bHasUnsavedAssets,
    UnsavedAssetCount,
    SampleUnsavedPackage,
    LastStatusLabel,
    LastDirtyCheckSeconds,
    LastSourceControlCheckSeconds,
    LastAutoFetchSeconds,
    LastStatusToastSeconds,
    bStatusUpdateInFlight,
    bHasSeenStatusLabel,
    bAutoFetch,                     \* USafeSaveSettings::bAutoFetch
    bToastOnStatusChange,           \* USafeSaveSettings::bToastOnStatusChange
    now,                            \* FPlatformTime::Seconds()
    owned,                          \* the editor still holds its reference to the widget
    dialog,                         \* the confirmation dialog that is open: "none", "pull", "push", "update"
    pollTasks,                      \* status polls: queued on the thread pool, probing, or replied to the game thread
    cmdTasks,                       \* commands: queued on the thread pool, running, or replied to the game thread
    toasts,                         \* the notifications the last step emitted
    events,                         \* what the last step did (history, read by no operation)
    menu,                           \* the gates as the menu last evaluated them
    hist                            \* the label changes change detection saw (history, read by no operation)

vars ==
    << SourceControlStatus, bHasUnsavedAssets, UnsavedAssetCount, SampleUnsavedPackage,
       LastStatusLabel, LastDirtyCheckSeconds, LastSourceControlCheckSeconds,
       LastAutoFetchSeconds, LastStatusToastSeconds, bStatusUpdateInFlight,
       bHasSeenStatusLabel, bAutoFetch, bToastOnStatusChange, now, owned, dialog,
       pollTasks, cmdTasks, toasts, events, menu, hist >>

\* The widget and what its handlers touch, as one value: a handler is a function
\* from this value to the value after it ran; toasts and events start empty.
Self ==
    [ SourceControlStatus           |-> SourceControlStatus,
      bHasUnsavedAssets             |-> bHasUnsavedAssets,
      UnsavedAssetCount             |-> UnsavedAssetCount,
      SampleUnsavedPackage          |-> SampleUnsavedPackage,
      LastStatusLabel               |-> LastStatusLabel,
      LastDirtyCheckSeconds         |-> LastDirtyCheckSeconds,
      LastSourceControlCheckSeconds |-> LastSourceControlCheckSeconds,
      LastAutoFetchSeconds          |-> LastAutoFetchSeconds,
      LastStatusToastSeconds        |-> LastStatusToastSeconds,
      bStatusUpdateInFlight         |-> bStatusUpdateInFlight,
      bHasSeenStatusLabel           |-> bHasSeenStatusLabel,
      bAutoFetch                    |-> bAutoFetch,
      bToastOnStatusChange          |-> bToastOnStatusChange,
      now                           |-> now,
      owned                         |-> owned,
      dialog                        |-> dialog,
      pollTasks                     |-> pollTasks,
      cmdTasks                      |-> cmdTasks,
      toasts                        |-> <<>>,
      events                        |-> {} ]

\* The step's result written back to the variables.
Install(s) ==
    /\ SourceControlStatus' = s.SourceControlStatus
    /\ bHasUnsavedAssets' = s.bHasUnsavedAssets
    /\ UnsavedAssetCount' = s.UnsavedAssetCount
    /\ SampleUnsavedPackage' = s.SampleUnsavedPackage
    /\ LastStatusLabel' = s.LastStatusLabel
    /\ LastDirtyCheckSeconds' = s.LastDirtyCheckSeconds
    /\ LastSourceControlCheckSeconds' = s.LastSourceControlCheckSeconds
    /\ LastAutoFetchSeconds' = s.LastAutoFetchSeconds
    /\ LastStatusToastSeconds' = s.LastStatusToastSeconds
    /\ bStatusUpdateInFlight' = s.bStatusUpdateInFlight
    /\ bHasSeenStatusLabel' = s.bHasSeenStatusLabel
    /\ bAutoFetch' = s.bAutoFetch
    /\ bToastOnStatusChange' = s.bToastOnStatusChange
    /\ now' = s.now
    /\ owned' = s.owned
    /\ dialog' = s.dialog
    /\ pollTasks' = s.pollTasks
    /\ cmdTasks' = s.cmdTasks
    /\ toasts' = s.toasts
    /\ events' = s.events

\* Settings and clock, in tenths of a second.
TimerPeriod == 5
DirtyIntervalFloor == 1
GitIntervalFloor == 10
AutoFetchIntervalFloor == 100
ToastIntervalFloor == 5
DirtyCheckIntervalSeconds == 10
GitCheckIntervalSeconds == 50
AutoFetchIntervalSeconds == 1200
StatusToastMinIntervalSeconds == 40

\* The platform clock when the widget is constructed.
StartSeconds == 1000

\* The model follows the widget for MaxTicks timer periods, with at most
\* MaxPollTasks polls and MaxCmdTasks commands outstanding and MaxDirty dirty
\* packages.
MaxTicks == 3
MaxPollTasks == 2
MaxCmdTasks == 1
MaxDirty == 1

Log(s, e) == [s EXCEPT !.events = @ \cup {e}]

\* Notify: one toast.
Notify(s, Key, Text, bSuccess) ==
    [s EXCEPT !.toasts = Append(@, [Key |-> Key, Text |-> Text, bSuccess |-> bSuccess])]

GetStatusSnapshot(s) == s.SourceControlStatus

IsGitProvider(s) == GetStatusSnapshot(s).Provider = "Git"

IsPlasticProvider(s) == GetStatusSnapshot(s).Provider = "Plastic"

\* (Status.Staged + Status.Unstaged + Status.Untracked) == 0
CleanTree(Status) == (Status.Staged + Status.Unstaged + Status.Untracked) = 0

\* A fetch gate that does not ask for a repository.
CanExecuteGitCommandWithoutRepo(s) ==
    IsGitProvider(s) /\ GetStatusSnapshot(s).bClientAvailable

CanExecuteGitCommand(s) ==
    LET Status == GetStatusSnapshot(s)
    IN  IsGitProvider(s) /\ Status.bClientAvailable /\ Status.bRepo

\* A pull gate that does not ask for commits to pull.
CanExecuteGitPullIgnoringBehind(s) ==
    LET Status == GetStatusSnapshot(s)
    IN  /\ IsGitProvider(s) /\ Status.bClientAvailable /\ Status.bRepo
        /\ Status.bHasUpstream /\ CleanTree(Status) /\ ~s.bHasUnsavedAssets

CanExecuteGitPull(s) ==
    LET Status == GetStatusSnapshot(s)
        bCleanTree == CleanTree(Status)
    IN  /\ IsGitProvider(s) /\ Status.bClientAvailable /\ Status.bRepo
        /\ Status.bHasUpstream /\ Status.Behind > 0 /\ bCleanTree /\ ~s.bHasUnsavedAssets

\* A push gate that wants more commits ahead than behind.
CanExecuteGitPushComparingAhead(s) ==
    LET Status == GetStatusSnapshot(s)
    IN  /\ IsGitProvider(s) /\ Status.bClientAvailable /\ Status.bRepo
        /\ Status.bHasUpstream /\ Status.Ahead > 0 /\ Status.Ahead >= Status.Behind
        /\ CleanTree(Status) /\ ~s.bHasUnsavedAssets

CanExecuteGitPush(s) ==
    LET Status == GetStatusSnapshot(s)
        bCleanTree == CleanTree(Status)
    IN  /\ IsGitProvider(s) /\ Status.bClientAvailable /\ Status.bRepo
        /\ Status.bHasUpstream /\ Status.Ahead > 0 /\ Status.Behind = 0
        /\ bCleanTree /\ ~s.bHasUnsavedAssets

\* An update gate that does not look at unsaved assets.
CanExecutePlasticUpdateIgnoringUnsaved(s) ==
    LET Status == GetStatusSnapshot(s)
    IN  IsPlasticProvider(s) /\ Status.bClientAvailable /\ Status.bRepo /\ CleanTree(Status)

CanExecutePlasticUpdate(s) ==
    LET Status == GetStatusSnapshot(s)
        bCleanTree == CleanTree(Status)
    IN  /\ IsPlasticProvider(s) /\ Status.bClientAvailable /\ Status.bRepo
        /\ bCleanTree /\ ~s.bHasUnsavedAssets

DigitChar == <<"0", "1", "2", "3", "4", "5", "6", "7", "8", "9">>

RECURSIVE ItoaNat(_)
ItoaNat(n) == IF n < 10 THEN <<DigitChar[n + 1]>> ELSE ItoaNat(n \div 10) \o <<DigitChar[(n % 10) + 1]>>

\* "%d"
Itoa(n) == IF n < 0 THEN <<"-">> \o ItoaNat(0 - n) ELSE ItoaNat(n)

\* A state text that looks at the pending changes before the commits behind.
StateTextChangesFirst(s) ==
    LET Status == GetStatusSnapshot(s)
    IN  IF Status.bHasConflicts THEN <<"C","o","n","f","l","i","c","t","s">>
        ELSE IF s.bHasUnsavedAssets
        THEN <<"U","n","s","a","v","e","d"," ">> \o Itoa(s.UnsavedAssetCount)
        ELSE IF Status.Ahead > 0 /\ Status.Behind > 0 THEN <<"D","i","v","e","r","g","e","d">>
        ELSE IF (Status.Staged + Status.Unstaged + Status.Untracked) > 0
        THEN <<"C","h","a","n","g","e","s">>
        ELSE IF Status.Behind > 0 THEN <<"B","e","h","i","n","d"," ">> \o Itoa(Status.Behind)
        ELSE IF Status.Ahead > 0 THEN <<"A","h","e","a","d"," ">> \o Itoa(Status.Ahead)
        ELSE <<"C","l","e","a","n">>

\* The state part of the label, by precedence.
StateText(s) ==
    LET Status == GetStatusSnapshot(s)
    IN  IF Status.bHasConflicts THEN <<"C","o","n","f","l","i","c","t","s">>
        ELSE IF s.bHasUnsavedAssets
        THEN <<"U","n","s","a","v","e","d"," ">> \o Itoa(s.UnsavedAssetCount)
        ELSE IF Status.Ahead > 0 /\ Status.Behind > 0 THEN <<"D","i","v","e","r","g","e","d">>
        ELSE IF Status.Behind > 0 THEN <<"B","e","h","i","n","d"," ">> \o Itoa(Status.Behind)
        ELSE IF (Status.Staged + Status.Unstaged + Status.Untracked) > 0
        THEN <<"C","h","a","n","g","e","s">>
        ELSE IF Status.Ahead > 0 THEN <<"A","h","e","a","d"," ">> \o Itoa(Status.Ahead)
        ELSE <<"C","l","e","a","n">>

\* The branch part of the label.
BranchText(s) ==
    LET Status == GetStatusSnapshot(s)
        B1 == IF IsEmpty(Status.Branch) THEN Status.WorkspaceName ELSE Status.Branch
        B2 == IF IsEmpty(B1) /\ Status.bAuthRequired /\ IsPlasticProvider(s)
              THEN <<"P","l","a","s","t","i","c">> ELSE B1
        B3 == IF IsEmpty(B2) THEN <<"u","n","k","n","o","w","n">> ELSE B2
    IN  IF IsGitProvider(s) /\ Contains(B3, <<"d","e","t","a","c","h","e","d">>)
        THEN <<"d","e","t","a","c","h","e","d">>
        ELSE B3

GetLabel(s) ==
    LET Status == GetStatusSnapshot(s)
    IN  IF ~Status.bClientAvailable THEN <<"S","C","M"," ","M","i","s","s","i","n","g">>
        ELSE IF Status.bAuthRequired THEN <<"L","o","g","i","n"," ","R","e","q","u","i","r","e","d">>
        ELSE IF ~Status.bRepo THEN <<"N","o"," ","S","C","M"," ","R","e","p","o">>
        ELSE BranchText(s) \o <<" ","|"," ">> \o StateText(s)

\* FMath::Max(0.5, Settings->StatusToastMinIntervalSeconds)
MinInterval == Max(ToastIntervalFloor, StatusToastMinIntervalSeconds)

\* A change detection that notifies every change, whatever the time since
\* the last notification.
MaybeNotifyStatusChangeWithoutInterval(s) ==
    LET CurrentLabel == GetLabel(s)
    IN  IF ~s.bToastOnStatusChange
        THEN [s EXCEPT !.LastStatusLabel = CurrentLabel, !.bHasSeenStatusLabel = TRUE]
        ELSE IF ~s.bHasSeenStatusLabel
        THEN [s EXCEPT !.LastStatusLabel = CurrentLabel, !.bHasSeenStatusLabel = TRUE]
        ELSE IF CurrentLabel # s.LastStatusLabel
        THEN [Notify(s, "StatusChange", <<"S","a","f","e","S","a","v","e",":"," ">> \o CurrentLabel, TRUE)
                EXCEPT !.LastStatusToastSeconds = s.now, !.LastStatusLabel = CurrentLabel]
        ELSE s

MaybeNotifyStatusChange(s) ==
    LET CurrentLabel == GetLabel(s)
    IN  IF ~s.bToastOnStatusChange
        THEN [s EXCEPT !.LastStatusLabel = CurrentLabel, !.bHasSeenStatusLabel = TRUE]
        ELSE IF ~s.bHasSeenStatusLabel
        THEN [s EXCEPT !.LastStatusLabel = CurrentLabel, !.bHasSeenStatusLabel = TRUE]
        ELSE IF CurrentLabel # s.LastStatusLabel
        THEN LET s1 == IF s.now - s.LastStatusToastSeconds >= MinInterval
                       THEN [Notify(s, "StatusChange", <<"S","a","f","e","S","a","v","e",":"," ">> \o CurrentLabel, TRUE)
                               EXCEPT !.LastStatusToastSeconds = s.now]
                       ELSE s
             IN  [s1 EXCEPT !.LastStatusLabel = CurrentLabel]
        ELSE s


\* Whether SelfWeak.Pin() yields the widget: the editor holds it, or a worker
\* that pinned it has not returned yet (it is at work, or it has posted its
\* reply and is about to return).
WidgetValid(s) ==
    \/ s.owned
    \/ \E i \in 1..Len(s.pollTasks) : s.pollTasks[i].phase \in {"probing", "posted"}
    \/ \E i \in 1..Len(s.cmdTasks) : s.cmdTasks[i].phase \in {"running", "posted"}

RemoveAt(Tasks, i) == SubSeq(Tasks, 1, i - 1) \o SubSeq(Tasks, i + 1, Len(Tasks))

\* StartSourceControlStatusUpdate, on the game thread: the flag is set and the
\* worker is handed to the thread pool.
StartSourceControlStatusUpdate(s) ==
    Log([s EXCEPT !.bStatusUpdateInFlight = TRUE,
                  !.pollTasks = Append(@, [phase |-> "queued", NewStatus |-> FSourceControlStatus])],
        "PollStarted")

\* A request that does not look at the in-flight flag.
RequestWithoutFlagCheck(s) == StartSourceControlStatusUpdate(s)

RequestSourceControlStatusUpdate(s) ==
    IF s.bStatusUpdateInFlight
    THEN Log(s, "RequestDropped")
    ELSE StartSourceControlStatusUpdate(s)

SamplePackageName == <<"/", "M">>

\* UpdateUnsavedState: Num is DirtyPackages.Num().
UpdateUnsavedState(s, Num) ==
    MaybeNotifyStatusChange(
        [s EXCEPT !.bHasUnsavedAssets = Num > 0,
                  !.UnsavedAssetCount = Num,
                  !.SampleUnsavedPackage = IF Num > 0 THEN SamplePackageName ELSE <<>>])

\* The project directory, used when the snapshot has no root.
ProjectDir == <<"/", "p", "r", "j">>

CmdTask(Exe, Args, WorkingDir, SuccessMessage, FailureMessage, bRefreshAfter, bSilentSuccess) ==
    [ Exe |-> Exe, Args |-> Args, WorkingDir |-> WorkingDir,
      SuccessMessage |-> SuccessMessage, FailureMessage |-> FailureMessage,
      bRefreshAfter |-> bRefreshAfter, bSilentSuccess |-> bSilentSuccess,
      phase |-> "queued", bSuccess |-> FALSE, ErrorText |-> <<>> ]

\* A RunGitCommandAsync that waits for the poll in flight: it refuses while
\* the in-flight flag is set.
RunGitCommandAsyncGatedByPoll(s, Args, SuccessMessage, FailureMessage, bRefreshAfter, bSilentSuccess) ==
    LET Status == GetStatusSnapshot(s)
        WorkingDir == IF IsEmpty(Status.RepoRoot) THEN ProjectDir ELSE Status.RepoRoot
    IN  IF ~IsGitProvider(s) \/ ~Status.bClientAvailable \/ ~Status.bRepo \/ s.bStatusUpdateInFlight
        THEN Notify(s, "GitUnavailable", <<>>, FALSE)
        ELSE [s EXCEPT !.cmdTasks = Append(@, CmdTask("git", Args, WorkingDir, SuccessMessage,
                                                      FailureMessage, bRefreshAfter, bSilentSuccess))]

\* RunGitCommandAsync, on the game thread: the check and the hand-over to the
\* thread pool.
RunGitCommandAsync(s, Args, SuccessMessage, FailureMessage, bRefreshAfter, bSilentSuccess) ==
    LET Status == GetStatusSnapshot(s)
        WorkingDir == IF IsEmpty(Status.RepoRoot) THEN ProjectDir ELSE Status.RepoRoot
    IN  IF ~IsGitProvider(s) \/ ~Status.bClientAvailable \/ ~Status.bRepo
        THEN Notify(s, "GitUnavailable", <<>>, FALSE)
        ELSE [s EXCEPT !.cmdTasks = Append(@, CmdTask("git", Args, WorkingDir, SuccessMessage,
                                                      FailureMessage, bRefreshAfter, bSilentSuccess))]

RunPlasticCommandAsync(s, Args, SuccessMessage, FailureMessage, bRefreshAfter, bSilentSuccess) ==
    LET Status == GetStatusSnapshot(s)
        WorkingDir == IF IsEmpty(Status.RepoRoot) THEN ProjectDir ELSE Status.RepoRoot
    IN  IF ~IsPlasticProvider(s) \/ ~Status.bClientAvailable \/ ~Status.bRepo
        THEN Notify(s, "PlasticUnavailable", <<>>, FALSE)
        ELSE [s EXCEPT !.cmdTasks = Append(@, CmdTask("cm", Args, WorkingDir, SuccessMessage,
                                                      FailureMessage, bRefreshAfter, bSilentSuccess))]

DirtyInterval == Max(DirtyIntervalFloor, DirtyCheckIntervalSeconds)
GitInterval == Max(GitIntervalFloor, GitCheckIntervalSeconds)
AutoFetchInterval == Max(AutoFetchIntervalFloor, AutoFetchIntervalSeconds)

\* An automatic fetch that does not look at the in-flight flag.
AutoFetchStepIgnoringInFlight(s) ==
    LET Status == GetStatusSnapshot(s)
        bCanAutoFetch == Status.bClientAvailable /\ Status.bRepo
    IN  IF s.bAutoFetch /\ IsGitProvider(s)
           /\ bCanAutoFetch /\ s.now - s.LastAutoFetchSeconds >= AutoFetchInterval
        THEN [Log(RunGitCommandAsync(s, "fetch --prune", "AutoFetchSuccess", "AutoFetchFail", TRUE, TRUE),
                  "AutoFetch")
                EXCEPT !.LastAutoFetchSeconds = s.now]
        ELSE s

\* The automatic fetch at the end of UpdateState.
AutoFetchStep(s) ==
    LET Status == GetStatusSnapshot(s)
        bCanAutoFetch == Status.bClientAvailable /\ Status.bRepo /\ ~s.bStatusUpdateInFlight
    IN  IF s.bAutoFetch /\ IsGitProvider(s)
           /\ bCanAutoFetch /\ s.now - s.LastAutoFetchSeconds >= AutoFetchInterval
        THEN [Log(RunGitCommandAsync(s, "fetch --prune", "AutoFetchSuccess", "AutoFetchFail", TRUE, TRUE),
                  "AutoFetch")
                EXCEPT !.LastAutoFetchSeconds = s.now]
        ELSE s

\* A timer callback that never asks for a poll.
UpdateStateWithoutPoll(s, Num) ==
    LET s1 == IF s.now - s.LastDirtyCheckSeconds >= DirtyInterval
              THEN [UpdateUnsavedState(s, Num) EXCEPT !.LastDirtyCheckSeconds = s.now]
              ELSE s
    IN  AutoFetchStep(s1)

\* UpdateState, the active timer's callback: s.now is the clock it reads, Num
\* the number of dirty packages if it looks.
UpdateState(s, Num) ==
    LET s1 == IF s.now - s.LastDirtyCheckSeconds >= DirtyInterval
              THEN [UpdateUnsavedState(s, Num) EXCEPT !.LastDirtyCheckSeconds = s.now]
              ELSE s
        s2 == IF s1.now - s1.LastSourceControlCheckSeconds >= GitInterval
              THEN [RequestSourceControlStatusUpdate(s1) EXCEPT !.LastSourceControlCheckSeconds = s1.now]
              ELSE s1
    IN  AutoFetchStep(s2)

\* ExecuteSaveAll: Num is the number of packages still dirty after the save.
ExecuteSaveAll(s, Num) == UpdateUnsavedState(s, Num)

ExecuteRefresh(s, Num) == RequestSourceControlStatusUpdate(UpdateUnsavedState(s, Num))

ExecuteGitFetch(s) == RunGitCommandAsync(s, "fetch --prune", "FetchSuccess", "FetchFail", TRUE, FALSE)

\* ExecuteGitPullRebase up to FMessageDialog::Open.
ExecuteGitPullRebase(s) ==
    IF ~CanExecuteGitPull(s) THEN Notify(s, "PullDisabled", <<>>, FALSE)
    ELSE [s EXCEPT !.dialog = "pull"]

\* ExecuteGitPush up to FMessageDialog::Open.
ExecuteGitPush(s) ==
    IF ~CanExecuteGitPush(s) THEN Notify(s, "PushDisabled", <<>>, FALSE)
    ELSE [s EXCEPT !.dialog = "push"]

\* ExecutePlasticUpdate up to FMessageDialog::Open.
ExecutePlasticUpdate(s) ==
    IF ~CanExecutePlasticUpdate(s) THEN Notify(s, "PlasticUpdateDisabled", <<>>, FALSE)
    ELSE [s EXCEPT !.dialog = "update"]

\* The rest of ExecuteGitPullRebase / ExecuteGitPush / ExecutePlasticUpdate,
\* once the dialog returns: bYes is Result == EAppReturnType::Yes.
DialogReturns(s, bYes) ==
    LET s1 == [s EXCEPT !.dialog = "none"]
    IN  IF ~bYes THEN s1
        ELSE IF s.dialog = "pull"
        THEN RunGitCommandAsync(s1, "pull --rebase", "PullSuccess", "PullFail", TRUE, FALSE)
        ELSE IF s.dialog = "push"
        THEN RunGitCommandAsync(s1, "push", "PushSuccess", "PushFail", TRUE, FALSE)
        ELSE RunPlasticCommandAsync(s1, "update", "PlasticUpdateSuccess", "PlasticUpdateFail", TRUE, FALSE)

ToggleAutoFetch(s) == [s EXCEPT !.bAutoFetch = ~@, !.LastAutoFetchSeconds = s.now]

\* The worker lambda of StartSourceControlStatusUpdate up to the pin: without
\* the widget it returns.
PollWorkerBegins(s, i) ==
    IF ~WidgetValid(s)
    THEN Log([s EXCEPT !.pollTasks = RemoveAt(@, i)], "StaleWorker")
    ELSE Log([s EXCEPT !.pollTasks[i].phase = "probing"], "ProbeSequence")

\* A worker that returns without a reply when the probe sequence found that a
\* login is required.
PollWorkerEndsWithoutReplyOnAuth(s, i, PreferredProvider, Cli) ==
    IF ProbeSequence(PreferredProvider, s.now, Cli).bAuthRequired
    THEN [s EXCEPT !.pollTasks = RemoveAt(@, i)]
    ELSE [s EXCEPT !.pollTasks[i] = [phase |-> "posted",
                                     NewStatus |-> ProbeSequence(PreferredProvider, s.now, Cli)]]

\* The rest of the worker lambda: the probe sequence, and the reply handed to
\* the game thread.
PollWorkerEnds(s, i, PreferredProvider, Cli) ==
    [s EXCEPT !.pollTasks[i] = [phase |-> "posted",
                                NewStatus |-> ProbeSequence(PreferredProvider, s.now, Cli)]]

\* The worker lambda returns: its pin is gone, its reply waits for the game
\* thread.
PollWorkerReturns(s, i) == [s EXCEPT !.pollTasks[i].phase = "reply"]

\* A completion that does not pin the widget first.
PollCompletesWithoutPin(s, i) ==
    MaybeNotifyStatusChange(
        Log([s EXCEPT !.pollTasks = RemoveAt(@, i),
                      !.SourceControlStatus = s.pollTasks[i].NewStatus,
                      !.bStatusUpdateInFlight = FALSE],
            "SnapshotInstalled"))

\* A completion that only replaces the snapshot, and leaves the flag and the
\* change detection to a later step.
PollCompletesSnapshotOnly(s, i) ==
    LET NewStatus == s.pollTasks[i].NewStatus
        s1 == [s EXCEPT !.pollTasks = RemoveAt(@, i)]
    IN  IF ~WidgetValid(s)
        THEN Log(s1, "StaleReply")
        ELSE Log([s1 EXCEPT !.SourceControlStatus = NewStatus], "SnapshotInstalled")

\* A completion that keeps the in-flight flag when the poll ended in an error.
PollCompletesLatchingErrors(s, i) ==
    LET NewStatus == s.pollTasks[i].NewStatus
        s1 == [s EXCEPT !.pollTasks = RemoveAt(@, i)]
    IN  IF ~WidgetValid(s)
        THEN Log(s1, "StaleReply")
        ELSE MaybeNotifyStatusChange(
                Log([s1 EXCEPT !.SourceControlStatus = NewStatus,
                               !.bStatusUpdateInFlight = ~IsEmpty(NewStatus.LastError)],
                    "SnapshotInstalled"))

\* A completion that starts the next poll by itself.
PollCompletesRestarting(s, i) ==
    LET NewStatus == s.pollTasks[i].NewStatus
        s1 == [s EXCEPT !.pollTasks = RemoveAt(@, i)]
    IN  IF ~WidgetValid(s)
        THEN Log(s1, "StaleReply")
        ELSE StartSourceControlStatusUpdate(
                MaybeNotifyStatusChange(
                    Log([s1 EXCEPT !.SourceControlStatus = NewStatus,
                                   !.bStatusUpdateInFlight = FALSE],
                        "SnapshotInstalled")))

\* The game-thread lambda of StartSourceControlStatusUpdate.
PollCompletes(s, i) ==
    LET NewStatus == s.pollTasks[i].NewStatus
        s1 == [s EXCEPT !.pollTasks = RemoveAt(@, i)]
    IN  IF ~WidgetValid(s)
        THEN Log(s1, "StaleReply")
        ELSE MaybeNotifyStatusChange(
                Log([s1 EXCEPT !.SourceControlStatus = NewStatus,
                               !.bStatusUpdateInFlight = FALSE],
                    "SnapshotInstalled"))

\* The worker lambda of RunGitCommandAsync / RunPlasticCommandAsync up to
\* RunGit / RunPlastic: the process is launched.
CmdWorkerBegins(s, i) ==
    IF ~WidgetValid(s)
    THEN Log([s EXCEPT !.cmdTasks = RemoveAt(@, i)], "StaleWorker")
    ELSE Log([s EXCEPT !.cmdTasks[i].phase = "running"], "Launch")

\* The rest of the worker lambda: Result is what the process returned.
CmdWorkerEnds(s, i, Result) ==
    [s EXCEPT !.cmdTasks[i].phase = "posted",
              !.cmdTasks[i].bSuccess = Result.launched /\ Result.ExitCode = 0,
              !.cmdTasks[i].ErrorText = TrimCopy(Result.StdErr)]

CmdWorkerReturns(s, i) == [s EXCEPT !.cmdTasks[i].phase = "reply"]

\* A command completion that also forgets the snapshot.
CmdCompletesClearingSnapshot(s, i) ==
    IF ~WidgetValid(s)
    THEN Log([s EXCEPT !.cmdTasks = RemoveAt(@, i)], "StaleReply")
    ELSE Log([s EXCEPT !.cmdTasks = RemoveAt(@, i),
                       !.SourceControlStatus = FSourceControlStatus],
             "CommandCompleted")

\* A command completion that reports nothing for a silent command.
CmdCompletesSilencingFailures(s, i) ==
    LET c == s.cmdTasks[i]
        s1 == [s EXCEPT !.cmdTasks = RemoveAt(@, i)]
        s2 == IF ~c.bSilentSuccess
              THEN Notify(s1, IF c.bSuccess THEN c.SuccessMessage ELSE c.FailureMessage, <<>>, c.bSuccess)
              ELSE s1
        s3 == IF ~c.bSuccess /\ ~IsEmpty(c.ErrorText) /\ ~c.bSilentSuccess
              THEN Notify(s2, "ErrorText", Left(c.ErrorText, 200), FALSE)
              ELSE s2
    IN  IF ~WidgetValid(s)
        THEN Log(s1, "StaleReply")
        ELSE Log(IF c.bRefreshAfter THEN RequestSourceControlStatusUpdate(s3) ELSE s3, "CommandCompleted")

\* The game-thread lambda of RunGitCommandAsync / RunPlasticCommandAsync.
CmdCompletes(s, i) ==
    LET c == s.cmdTasks[i]
        s1 == [s EXCEPT !.cmdTasks = RemoveAt(@, i)]
        s2 == IF ~(c.bSuccess /\ c.bSilentSuccess)
              THEN Notify(s1, IF c.bSuccess THEN c.SuccessMessage ELSE c.FailureMessage, <<>>, c.bSuccess)
              ELSE s1
        s3 == IF ~c.bSuccess /\ ~IsEmpty(c.ErrorText)
              THEN Notify(s2, "ErrorText", Left(c.ErrorText, 200), FALSE)
              ELSE s2
    IN  IF ~WidgetValid(s)
        THEN Log(s1, "StaleReply")
        ELSE Log(IF c.bRefreshAfter THEN RequestSourceControlStatusUpdate(s3) ELSE s3, "CommandCompleted")

--------------------------------------------------------------------------
(* What the environment answers: CLI results, the editor's provider        *)

\* A call the probe sequence did not reach.
NotRun == ExecResult(FALSE, 0, <<>>, <<>>)

\* The executable could not be started.
NotLaunched == ExecResult(FALSE, 0, <<>>, <<>>)

GitAbLine(a, b) == BranchAbPrefix \o <<"+", a, " ", "-", b, "\n">>

\* "# branch.head m", "# branch.upstream o/m" and "# branch.ab +a -b".
GitHeader(a, b) ==
    BranchHeadPrefix \o <<"m", "\n">> \o BranchUpstreamPrefix \o <<"o", "/", "m", "\n">> \o GitAbLine(a, b)

\* "1 .M f": one file modified in the work tree.
GitModifiedLine == <<"1"," ",".","M"," ","f","\n">>

RevParseFailures ==
    { NotLaunched,
      ExecResult(TRUE, 128, <<>>, <<"n","o"," ","r","e","p","o","\n">>) }

RevParseOk == ExecResult(TRUE, 0, <<"/","r","\n">>, <<>>)

\* git status: behind and clean, ahead and clean, diverged and clean, behind
\* with a modified file, and a failed call.
GitStatusSamples ==
    { ExecResult(TRUE, 0, GitHeader("0", "1"), <<>>),
      ExecResult(TRUE, 0, GitHeader("1", "0"), <<>>),
      ExecResult(TRUE, 0, GitHeader("1", "1"), <<>>),
      ExecResult(TRUE, 0, GitHeader("0", "1") \o GitModifiedLine, <<>>),
      ExecResult(TRUE, 1, <<>>, <<"e","r","r","\n">>) }

WsFailures ==
    { NotLaunched,
      ExecResult(TRUE, 1, <<>>, <<"n","o"," ","w","s","\n">>),
      ExecResult(TRUE, 1, <<>>, <<"t","o","k","e","n"," ","e","x","p","i","r","e","d","\n">>) }

WsOk == ExecResult(TRUE, 0, <<"w","|","/","p","\n">>, <<>>)

InfoOk == ExecResult(TRUE, 0, <<"B","r","a","n","c","h",":"," ","/","m","\n">>, <<>>)

HeaderOk == ExecResult(TRUE, 0, <<"c","s",":","1"," ","h","e","a","d",":","1","\n">>, <<>>)

\* cm status: clean, one changed file, and a failed call.
PlasticStatusSamples ==
    { ExecResult(TRUE, 0, <<>>, <<>>),
      ExecResult(TRUE, 0, PlasticLineStart \o <<"C","H","|","f">> \o PlasticLineEnd \o <<"\n">>, <<>>),
      ExecResult(TRUE, 1, <<>>, <<"e","r","r","\n">>) }

\* The results of the git calls of one probe: the status call is reached only
\* after a successful rev-parse.
GitRuns(RevFailures, Statuses) ==
    { [RevParse |-> r, GitStatus |-> NotRun] : r \in RevFailures }
    \cup { [RevParse |-> RevParseOk, GitStatus |-> g] : g \in Statuses }

\* The results of the cm calls of one probe.
PlasticRuns(Failures, Infos, Headers, Statuses) ==
    { [Ws |-> w, Info |-> NotRun, Header |-> NotRun, St |-> NotRun] : w \in Failures }
    \cup { [Ws |-> WsOk, Info |-> i, Header |-> h, St |-> p] :
              i \in Infos, h \in Headers, p \in Statuses }

NoGitRun == [RevParse |-> NotRun, GitStatus |-> NotRun]
NoPlasticRun == [Ws |-> NotRun, Info |-> NotRun, Header |-> NotRun, St |-> NotRun]

CliOf(g, p) ==
    [ RevParse |-> g.RevParse, GitStatus |-> g.GitStatus,
      Ws |-> p.Ws, Info |-> p.Info, Header |-> p.Header, St |-> p.St ]

\* What the editor's source-control module reports: disabled, Git, Plastic SCM.
ProviderSamples ==
    { [bEnabled |-> FALSE, Name |-> <<"G","i","t">>],
      [bEnabled |-> TRUE, Name |-> <<"G","i","t">>],
      [bEnabled |-> TRUE, Name |-> <<"P","l","a","s","t","i","c"," ","S","C","M">>] }

\* Every input of one poll: the preferred provider and the results of the
\* calls that provider path makes.
PollInputs(Providers, Gits, Plastics) ==
    LET Pref(e) == GetPreferredProvider(e.bEnabled, e.Name)
    IN  { [Preferred |-> Pref(e), Cli |-> CliOf(g, NoPlasticRun)] :
             e \in { x \in Providers : Pref(x) = "Git" }, g \in Gits }
        \cup { [Preferred |-> Pref(e), Cli |-> CliOf(NoGitRun, p)] :
             e \in { x \in Providers : Pref(x) = "Plastic" }, p \in Plastics }
        \cup { [Preferred |-> Pref(e), Cli |-> CliOf(g, NoPlasticRun)] :
             e \in { x \in Providers : Pref(x) = "None" },
             g \in { x \in Gits : x.RevParse = RevParseOk } }
        \cup { [Preferred |-> Pref(e), Cli |-> CliOf(g, p)] :
             e \in { x \in Providers : Pref(x) = "None" },
             g \in { x \in Gits : x.RevParse # RevParseOk }, p \in Plastics }

\* The polls of the toolbar's state machine: git missing, or a repository that
\* is behind, ahead, or behind with a modified file; no Plastic workspace, or a
\* clean one.
SpecPollInputs ==
    PollInputs({ e \in ProviderSamples : e.bEnabled },
               GitRuns({NotLaunched},
                       { ExecResult(TRUE, 0, GitHeader("0", "1"), <<>>),
                         ExecResult(TRUE, 0, GitHeader("1", "0"), <<>>),
                         ExecResult(TRUE, 0, GitHeader("0", "1") \o GitModifiedLine, <<>>) }),
               PlasticRuns({ExecResult(TRUE, 1, <<>>, <<"n","o"," ","w","s","\n">>)},
                           {InfoOk}, {HeaderOk}, {ExecResult(TRUE, 0, <<>>, <<>>)}))

\* What a command's process returns: success, failure with and without
\* error text, and no launch.
CmdResults ==
    { ExecResult(TRUE, 0, <<>>, <<>>),
      ExecResult(TRUE, 1, <<>>, <<"e","r","r","\n">>),
      NotLaunched }

--------------------------------------------------------------------------
(* The specification                                                       *)

NoMenu == [Fetch |-> FALSE, Pull |-> FALSE, Push |-> FALSE, Update |-> FALSE, built |-> FALSE]

NoHist == <<>>

\* The fields as Construct sets them, before its two calls at the end.
Constructed(bAuto, bToast) ==
    [ SourceControlStatus           |-> FSourceControlStatus,
      bHasUnsavedAssets             |-> FALSE,
      UnsavedAssetCount             |-> 0,
      SampleUnsavedPackage          |-> <<>>,
      LastStatusLabel               |-> <<>>,
      LastDirtyCheckSeconds         |-> 0,
      LastSourceControlCheckSeconds |-> 0,
      LastAutoFetchSeconds          |-> StartSeconds,
      LastStatusToastSeconds        |-> 0,
      bStatusUpdateInFlight         |-> FALSE,
      bHasSeenStatusLabel           |-> FALSE,
      bAutoFetch                    |-> bAuto,
      bToastOnStatusChange          |-> bToast,
      now                           |-> StartSeconds,
      owned                         |-> TRUE,
      dialog                        |-> "none",
      pollTasks                     |-> <<>>,
      cmdTasks                      |-> <<>>,
      toasts                        |-> <<>>,
      events                        |-> {} ]

\* Construct: the fields, then UpdateUnsavedState() and
\* RequestSourceControlStatusUpdate().
Construct(bAuto, bToast, Num) ==
    RequestSourceControlStatusUpdate(UpdateUnsavedState(Constructed(bAuto, bToast), Num))

\* The widget holds what s holds.
Holds(s) ==
    /\ SourceControlStatus = s.SourceControlStatus
    /\ bHasUnsavedAssets = s.bHasUnsavedAssets
    /\ UnsavedAssetCount = s.UnsavedAssetCount
    /\ SampleUnsavedPackage = s.SampleUnsavedPackage
    /\ LastStatusLabel = s.LastStatusLabel
    /\ LastDirtyCheckSeconds = s.LastDirtyCheckSeconds
    /\ LastSourceControlCheckSeconds = s.LastSourceControlCheckSeconds
    /\ LastAutoFetchSeconds = s.LastAutoFetchSeconds
    /\ LastStatusToastSeconds = s.LastStatusToastSeconds
    /\ bStatusUpdateInFlight = s.bStatusUpdateInFlight
    /\ bHasSeenStatusLabel = s.bHasSeenStatusLabel
    /\ bAutoFetch = s.bAutoFetch
    /\ bToastOnStatusChange = s.bToastOnStatusChange
    /\ now = s.now
    /\ owned = s.owned
    /\ dialog = s.dialog
    /\ pollTasks = s.pollTasks
    /\ cmdTasks = s.cmdTasks
    /\ toasts = s.toasts
    /\ events = s.events

\* The settings' defaults: no automatic fetch, toasts on status change.
Init ==
    /\ \E Num \in 0..MaxDirty : Holds(Construct(FALSE, TRUE, Num))
    /\ menu = NoMenu
    /\ hist = NoHist

\* A step of the widget: the handler's result, within the model's bounds.
Step(s) ==
    /\ Len(s.pollTasks) <= MaxPollTasks
    /\ Len(s.cmdTasks) <= MaxCmdTasks
    /\ Install(s)
    /\ UNCHANGED <<menu, hist>>

\* The user can act: the widget is up and no modal dialog is open.
Interactive == owned /\ dialog = "none"

\* The steps below take Do, the way a specification records a step (Step
\* here), and what they draw their inputs from.

\* The active timer fires: a timer period has passed.
TickBy(Do(_), Limit) ==
    /\ owned
    /\ now + TimerPeriod <= StartSeconds + Limit * TimerPeriod
    /\ \E Num \in 0..MaxDirty : Do(UpdateState([Self EXCEPT !.now = now + TimerPeriod], Num))

RefreshBy(Do(_)) == Interactive /\ \E Num \in 0..MaxDirty : Do(ExecuteRefresh(Self, Num))

\* The menu entries of the source-control section are bound with a CanExecute
\* delegate: an entry runs its handler only while the delegate answers true.
GitFetchBy(Do(_)) == Interactive /\ CanExecuteGitCommand(Self) /\ Do(ExecuteGitFetch(Self))

AutoFetchToggledBy(Do(_)) == Interactive /\ CanExecuteGitCommand(Self) /\ Do(ToggleAutoFetch(Self))

PollWorkerStartBy(Do(_)) ==
    \E i \in 1..Len(pollTasks) :
        pollTasks[i].phase = "queued" /\ Do(PollWorkerBegins(Self, i))

PollWorkerFinishBy(Do(_), Inputs) ==
    \E i \in 1..Len(pollTasks) :
        /\ pollTasks[i].phase = "probing"
        /\ \E in \in Inputs : Do(PollWorkerEnds(Self, i, in.Preferred, in.Cli))

PollWorkerReturnBy(Do(_)) ==
    \E i \in 1..Len(pollTasks) :
        pollTasks[i].phase = "posted" /\ Do(PollWorkerReturns(Self, i))

PollCompleteBy(Do(_)) ==
    \E i \in 1..Len(pollTasks) :
        pollTasks[i].phase \in {"posted", "reply"} /\ Do(PollCompletes(Self, i))

CmdWorkerStartBy(Do(_)) ==
    \E i \in 1..Len(cmdTasks) :
        cmdTasks[i].phase = "queued" /\ Do(CmdWorkerBegins(Self, i))

CmdWorkerFinishBy(Do(_), Results) ==
    \E i \in 1..Len(cmdTasks) :
        /\ cmdTasks[i].phase = "running"
        /\ \E Result \in Results : Do(CmdWorkerEnds(Self, i, Result))

CmdWorkerReturnBy(Do(_)) ==
    \E i \in 1..Len(cmdTasks) :
        cmdTasks[i].phase = "posted" /\ Do(CmdWorkerReturns(Self, i))

CmdCompleteBy(Do(_)) ==
    \E i \in 1..Len(cmdTasks) :
        cmdTasks[i].phase \in {"posted", "reply"} /\ Do(CmdCompletes(Self, i))

Tick == TickBy(Step, MaxTicks)

SaveAll == Interactive /\ \E Num \in 0..MaxDirty : Step(ExecuteSaveAll(Self, Num))

Refresh == RefreshBy(Step)

GitFetch == GitFetchBy(Step)

GitPullRebase == Interactive /\ CanExecuteGitPull(Self) /\ Step(ExecuteGitPullRebase(Self))

GitPush == Interactive /\ CanExecuteGitPush(Self) /\ Step(ExecuteGitPush(Self))

PlasticUpdate == Interactive /\ CanExecutePlasticUpdate(Self) /\ Step(ExecutePlasticUpdate(Self))

DialogAnswered == owned /\ dialog # "none" /\ \E bYes \in BOOLEAN : Step(DialogReturns(Self, bYes))

\* The editor lets go of the toolbar.
TearDown == Interactive /\ Step([Self EXCEPT !.owned = FALSE])

PollWorkerStart == PollWorkerStartBy(Step)

PollWorkerFinish == PollWorkerFinishBy(Step, SpecPollInputs)

PollWorkerReturn == PollWorkerReturnBy(Step)

PollComplete == PollCompleteBy(Step)

CmdWorkerStart == CmdWorkerStartBy(Step)

CmdWorkerFinish == CmdWorkerFinishBy(Step, CmdResults)

CmdWorkerReturn == CmdWorkerReturnBy(Step)

CmdComplete == CmdCompleteBy(Step)

\* The toolbar with automatic fetch off: the timer, the menu, the dialogs,
\* polls and commands in every interleaving, and the editor letting go.
Next ==
    \/ Tick
    \/ SaveAll
    \/ Refresh
    \/ GitFetch
    \/ GitPullRebase
    \/ GitPush
    \/ PlasticUpdate
    \/ DialogAnswered
    \/ TearDown
    \/ PollWorkerStart
    \/ PollWorkerFinish
    \/ PollWorkerReturn
    \/ PollComplete
    \/ CmdWorkerStart
    \/ CmdWorkerFinish
    \/ CmdWorkerReturn
    \/ CmdComplete

Spec == Init /\ [][Next]_vars

--------------------------------------------------------------------------
(* The poller alone, over every kind of CLI answer                         *)

\* "w": a workspace line without the separator.
WsNoRoot == ExecResult(TRUE, 0, <<"w","\n">>, <<>>)

AuthFailure == ExecResult(TRUE, 1, <<>>, <<"t","o","k","e","n"," ","e","x","p","i","r","e","d","\n">>)

PlainFailure == ExecResult(TRUE, 1, <<>>, <<"e","r","r","\n">>)

\* "/m@r (cs:2 - head:1)": a header line that carries the branch; ahead by one.
HeaderWithBranch ==
    ExecResult(TRUE, 0, <<"/","m","@","r"," ","(","c","s",":","2"," ","-"," ","h","e","a","d",":","1",")","\n">>, <<>>)

AllPollInputs ==
    PollInputs(ProviderSamples,
               GitRuns(RevParseFailures, GitStatusSamples),
               PlasticRuns(WsFailures \cup {WsNoRoot},
                           {InfoOk, AuthFailure, PlainFailure},
                           {HeaderOk, HeaderWithBranch, AuthFailure},
                           PlasticStatusSamples \cup {AuthFailure}))

PollProbe == PollWorkerFinishBy(Step, AllPollInputs)

PollNext ==
    \/ Refresh
    \/ PollWorkerStart
    \/ PollProbe
    \/ PollWorkerReturn
    \/ PollComplete

PollSpec == Init /\ [][PollNext]_vars

--------------------------------------------------------------------------
(* The gates, over every snapshot                                          *)

\* Ahead and behind range up to MaxCount, the counts of the work tree up to
\* MaxTree.
MaxCount == 2
MaxTree == 1

GateSnapshots ==
    { [FSourceControlStatus EXCEPT
          !.Provider = p, !.bClientAvailable = c, !.bRepo = r, !.bHasUpstream = u,
          !.Ahead = a, !.Behind = b, !.Staged = st, !.Unstaged = un, !.Untracked = ut] :
      p \in ESourceControlProvider, c \in BOOLEAN, r \in BOOLEAN, u \in BOOLEAN,
      a \in (-1)..MaxCount, b \in (-1)..MaxCount,
      st \in 0..MaxTree, un \in 0..MaxTree, ut \in 0..MaxTree }

GateInit ==
    /\ \E Status \in GateSnapshots, Num \in 0..MaxDirty :
          Holds([Constructed(FALSE, TRUE) EXCEPT
                    !.SourceControlStatus = Status,
                    !.bHasUnsavedAssets = Num > 0,
                    !.UnsavedAssetCount = Num])
    /\ menu = NoMenu
    /\ hist = NoHist

\* The menu asks the CanExecute delegates of its entries.
BuildMenu ==
    /\ ~menu.built
    /\ menu' = [ Fetch  |-> CanExecuteGitCommand(Self),
                 Pull   |-> CanExecuteGitPull(Self),
                 Push   |-> CanExecuteGitPush(Self),
                 Update |-> CanExecutePlasticUpdate(Self),
                 built  |-> TRUE ]
    /\ UNCHANGED << SourceControlStatus, bHasUnsavedAssets, UnsavedAssetCount,
                    SampleUnsavedPackage, LastStatusLabel, LastDirtyCheckSeconds,
                    LastSourceControlCheckSeconds, LastAutoFetchSeconds,
                    LastStatusToastSeconds, bStatusUpdateInFlight, bHasSeenStatusLabel,
                    bAutoFetch, bToastOnStatusChange, now, owned, dialog,
                    pollTasks, cmdTasks, toasts, events, hist >>

GateNext == BuildMenu

GateSpec == GateInit /\ [][GateNext]_vars

--------------------------------------------------------------------------
(* The toolbar over time: the timer, polls and automatic fetch             *)

\* The timer specification follows the widget for MaxTimerTicks periods.
MaxTimerTicks == 10

StatusToastPrefix == <<"S","a","f","e","S","a","v","e",":"," ">>

\* The labels of the status-change notifications among Toasts.
RECURSIVE StatusToastLabels(_)
StatusToastLabels(Toasts) ==
    IF Toasts = <<>> THEN <<>>
    ELSE (IF Head(Toasts).Key = "StatusChange"
          THEN <<RightChop(Head(Toasts).Text, Len(StatusToastPrefix))>>
          ELSE <<>>) \o StatusToastLabels(Tail(Toasts))

\* The history after a step to s: the last two label changes that change
\* detection saw (toasts enabled, a label seen before), each with the
\* status-change notifications emitted from it until the next change.
Recorded(s) ==
    LET bChanged == bToastOnStatusChange /\ bHasSeenStatusLabel /\ s.LastStatusLabel # LastStatusLabel
        All == IF bChanged
               THEN Append(hist, [at |-> s.now, label |-> s.LastStatusLabel, toasts |-> <<>>])
               ELSE hist
        Kept == IF Len(All) > 2 THEN Tail(All) ELSE All
    IN  IF Kept = <<>> THEN Kept
        ELSE [Kept EXCEPT ![Len(Kept)].toasts = @ \o StatusToastLabels(s.toasts)]

\* A step of the widget, recorded in the history.
Observed(s) ==
    /\ Len(s.pollTasks) <= MaxPollTasks
    /\ Len(s.cmdTasks) <= MaxCmdTasks
    /\ Install(s)
    /\ hist' = Recorded(s)
    /\ UNCHANGED menu

\* The polls of the timer specification: a Git repository that is behind, or
\* ahead.
TimerPollInputs ==
    PollInputs({ e \in ProviderSamples : GetPreferredProvider(e.bEnabled, e.Name) = "Git" },
               GitRuns({},
                       { ExecResult(TRUE, 0, GitHeader("0", "1"), <<>>),
                         ExecResult(TRUE, 0, GitHeader("1", "0"), <<>>) }),
               {})

TimerTick == TickBy(Observed, MaxTimerTicks)

TimerPollWorkerStart == PollWorkerStartBy(Observed)

TimerPollWorkerFinish == PollWorkerFinishBy(Observed, TimerPollInputs)

TimerPollWorkerReturn == PollWorkerReturnBy(Observed)

TimerPollComplete == PollCompleteBy(Observed)

TimerNext ==
    \/ TimerTick
    \/ TimerPollWorkerStart
    \/ TimerPollWorkerFinish
    \/ TimerPollWorkerReturn
    \/ TimerPollComplete

TimerSpec == Init /\ [][TimerNext]_vars

--------------------------------------------------------------------------
(* One poll, with what it asked and what it was answered                   *)

\* "Unauthorized: token expired" on stderr, with the given exit code and stdout.
Unauthorized(exit, out) ==
    ExecResult(TRUE, exit, out,
               <<"U","n","a","u","t","h","o","r","i","z","e","d",":"," ",
                 "t","o","k","e","n"," ","e","x","p","i","r","e","d","\n">>)

\* Exit code 0 and nothing written.
SilentSuccess == ExecResult(TRUE, 0, <<>>, <<>>)

\* git: not installed, not a repository (with and without a message), or a
\* repository whose status call answers or fails.
ProbeGits ==
    { [RevParse |-> r, GitStatus |-> g] :
        r \in RevParseFailures \cup { ExecResult(TRUE, 128, <<>>, <<>>), RevParseOk },
        g \in { ExecResult(TRUE, 0, GitHeader("1", "0"), <<>>), PlainFailure } }

\* cm: each of the four calls answers, fails with a login error, or answers
\* with exit code 0 while stderr carries a login error; the first call also
\* fails plainly, writes nothing, or names no root.
ProbePlastics ==
    { [Ws |-> w, Info |-> i, Header |-> h, St |-> p] :
        w \in { NotLaunched, PlainFailure, Unauthorized(1, <<>>), SilentSuccess, WsNoRoot,
                WsOk, Unauthorized(0, WsOk.StdOut) },
        i \in { InfoOk, Unauthorized(1, <<>>), Unauthorized(0, InfoOk.StdOut) },
        h \in { HeaderOk, Unauthorized(1, <<>>), Unauthorized(0, HeaderOk.StdOut) },
        p \in { SilentSuccess, PlainFailure, Unauthorized(1, <<>>), Unauthorized(0, <<>>) } }

\* The worker's probe sequence, with the preference it resolved, the answers
\* the tools had ready and the calls it made kept in the history.
ProbeRuns ==
    \E i \in 1..Len(pollTasks) :
        /\ pollTasks[i].phase = "probing"
        /\ \E e \in ProviderSamples, g \in ProbeGits, p \in ProbePlastics :
              LET PreferredProvider == GetPreferredProvider(e.bEnabled, e.Name)
                  Cli == CliOf(g, p)
              IN  /\ Install(PollWorkerEnds(Self, i, PreferredProvider, Cli))
                  /\ hist' = << [ Preferred |-> PreferredProvider,
                                  Cli       |-> Cli,
                                  Calls     |-> ProbeCalls(PreferredProvider, Cli) ] >>
                  /\ UNCHANGED menu

\* The poll that Construct requests, from the thread pool to the snapshot.
ProbeNext ==
    \/ PollWorkerStart
    \/ ProbeRuns
    \/ PollWorkerReturn
    \/ PollComplete

ProbeSpec == Init /\ [][ProbeNext]_vars

--------------------------------------------------------------------------
(* One poll of a Git repository, over the lines of its status output       *)

\* The status output has at most MaxLines lines.
MaxLines == 4

\* Lines of "git status --porcelain=v2 -b": the branch headers, a file
\* modified in the work tree, a rename with a further modification, an entry
\* marked unmerged in its status characters, an unmerged entry, an untracked
\* file.
PorcelainLines ==
    { BranchHeadPrefix \o <<"m","a","i","n">>,
      BranchUpstreamPrefix \o <<"o","/","m">>,
      BranchAbPrefix \o <<"+","2"," ","-","0">>,
      BranchAbPrefix \o <<"+","1"," ","-","3">>,
      <<"1"," ",".","M"," ","f">>,
      <<"2"," ","R","M"," ","f">>,
      <<"1"," ",".","U"," ","f">>,
      <<"u"," ","U","U"," ","f">>,
      <<"?"," ","f">> }

RECURSIVE JoinLines(_)
\* The output that has these lines, each ended by a line feed.
JoinLines(Lines) ==
    IF Lines = <<>> THEN <<>> ELSE Head(Lines) \o <<"\n">> \o JoinLines(Tail(Lines))

\* The worker's probe sequence with provider preference Git, in a repository
\* whose status call writes Lines; the lines are kept in the history.
ParseRuns ==
    \E i \in 1..Len(pollTasks), n \in 0..MaxLines :
        /\ pollTasks[i].phase = "probing"
        /\ \E Lines \in [1..n -> PorcelainLines] :
              /\ Install(PollWorkerEnds(Self, i, "Git",
                    CliOf([RevParse |-> RevParseOk,
                           GitStatus |-> ExecResult(TRUE, 0, JoinLines(Lines), <<>>)],
                          NoPlasticRun)))
              /\ hist' = << [Lines |-> Lines] >>
              /\ UNCHANGED menu

ParseNext ==
    \/ PollWorkerStart
    \/ ParseRuns
    \/ PollWorkerReturn
    \/ PollComplete

ParseSpec == Init /\ [][ParseNext]_vars

--------------------------------------------------------------------------
(* Commands, manual and automatic, with what their processes returned      *)

\* The timer fires at most MaxCmdTicks times before and after the editor was
\* busy.
MaxCmdTicks == 1

\* The characters of the long error text: more than ErrorText.Left(200) keeps.
LongErrorLen == 203

LongError == [k \in 1..LongErrorLen |-> "x"]

\* What a command's process returns: success without output and with text on
\* stderr, failure without error text, with blank, short and long error text,
\* and no launch.
CmdProcessResults ==
    { ExecResult(TRUE, 0, <<>>, <<>>),
      ExecResult(TRUE, 0, <<>>, <<"o","k","\n">>),
      ExecResult(TRUE, 1, <<>>, <<>>),
      ExecResult(TRUE, 1, <<>>, <<" ","\n">>),
      ExecResult(TRUE, 1, <<>>, <<"e","r","r","\n">>),
      ExecResult(TRUE, 128, <<>>, LongError \o <<"\n">>),
      NotLaunched }

\* The polls: a clean Git repository behind its upstream, or a clean Plastic
\* workspace.
CmdPollInputs ==
    PollInputs({ e \in ProviderSamples : e.bEnabled },
               GitRuns({}, {ExecResult(TRUE, 0, GitHeader("0", "1"), <<>>)}),
               PlasticRuns({}, {InfoOk}, {HeaderOk}, {ExecResult(TRUE, 0, <<>>, <<>>)}))

\* The history: Results[i] is what the process of cmdTasks[i] returned (NotRun
\* until it has), Done is the completion of the last step, if it was one.
NoCommands == [Results |-> <<>>, Done |-> <<>>]

\* The settings may have automatic fetch on.
CmdInit ==
    /\ \E Num \in 0..MaxDirty, bAuto \in BOOLEAN : Holds(Construct(bAuto, TRUE, Num))
    /\ menu = NoMenu
    /\ hist = NoCommands

\* A step that completes no command; a command it starts has no result yet.
CmdStep(s) ==
    /\ Len(s.pollTasks) <= MaxPollTasks
    /\ Len(s.cmdTasks) <= MaxCmdTasks
    /\ Install(s)
    /\ hist' = [Results |-> IF Len(s.cmdTasks) > Len(cmdTasks)
                            THEN Append(hist.Results, NotRun) ELSE hist.Results,
                Done |-> <<>>]
    /\ UNCHANGED menu

\* The clock readings the model follows: up to MaxCmdTicks timer periods after
\* the construction, and as many after the automatic-fetch interval.
CmdClock ==
    { StartSeconds + d + k * TimerPeriod : d \in {0, AutoFetchInterval}, k \in 0..MaxCmdTicks }

\* The active timer fires: the callback reads the clock, which has advanced by
\* a timer period, or by the automatic-fetch interval when the editor was
\* busy in between.
CmdTick ==
    /\ owned
    /\ \E Elapsed \in {TimerPeriod, AutoFetchInterval}, Num \in 0..MaxDirty :
          /\ now + Elapsed \in CmdClock
          /\ CmdStep(UpdateState([Self EXCEPT !.now = now + Elapsed], Num))

CmdGitFetch == GitFetchBy(CmdStep)

CmdPlasticUpdate == Interactive /\ CanExecutePlasticUpdate(Self) /\ CmdStep(ExecutePlasticUpdate(Self))

CmdDialogAnswered == owned /\ dialog # "none" /\ \E bYes \in BOOLEAN : CmdStep(DialogReturns(Self, bYes))

CmdTearDown == Interactive /\ CmdStep([Self EXCEPT !.owned = FALSE])

CmdPollWorkerStart == PollWorkerStartBy(CmdStep)

CmdPollWorkerFinish == PollWorkerFinishBy(CmdStep, CmdPollInputs)

CmdPollWorkerReturn == PollWorkerReturnBy(CmdStep)

CmdPollComplete == PollCompleteBy(CmdStep)

\* The worker of a command begins; without the widget it returns and the
\* command is gone.
CmdBegins ==
    \E i \in 1..Len(cmdTasks) :
        /\ cmdTasks[i].phase = "queued"
        /\ Install(CmdWorkerBegins(Self, i))
        /\ hist' = [Results |-> IF WidgetValid(Self) THEN hist.Results ELSE RemoveAt(hist.Results, i),
                    Done |-> <<>>]
        /\ UNCHANGED menu

\* The process of a command returns Result.
CmdRuns ==
    \E i \in 1..Len(cmdTasks) :
        /\ cmdTasks[i].phase = "running"
        /\ \E Result \in CmdProcessResults :
              /\ Install(CmdWorkerEnds(Self, i, Result))
              /\ hist' = [Results |-> [hist.Results EXCEPT ![i] = Result], Done |-> <<>>]
              /\ UNCHANGED menu

CmdReturns == CmdWorkerReturnBy(CmdStep)

\* The game-thread lambda of a command runs; Done keeps the command, what its
\* process returned, and whether the lambda found the widget.
CmdCompleted ==
    \E i \in 1..Len(cmdTasks) :
        /\ cmdTasks[i].phase \in {"posted", "reply"}
        /\ Len(CmdCompletes(Self, i).pollTasks) <= MaxPollTasks
        /\ Install(CmdCompletes(Self, i))
        /\ hist' = [Results |-> RemoveAt(hist.Results, i),
                    Done |-> << [Task |-> cmdTasks[i], Result |-> hist.Results[i],
                                 bLive |-> WidgetValid(Self)] >>]
        /\ UNCHANGED menu

CmdNext ==
    \/ CmdTick
    \/ CmdGitFetch
    \/ CmdPlasticUpdate
    \/ CmdDialogAnswered
    \/ CmdTearDown
    \/ CmdPollWorkerStart
    \/ CmdPollWorkerFinish
    \/ CmdPollWorkerReturn
    \/ CmdPollComplete
    \/ CmdBegins
    \/ CmdRuns
    \/ CmdReturns
    \/ CmdCompleted

CmdSpec == CmdInit /\ [][CmdNext]_vars

--------------------------------------------------------------------------
(* The periodic poll, as long as the timer ticks                           *)

\* The timer ticks MaxLiveTicks times: more than one poll interval.
MaxLiveTicks == 12

\* The polls: git missing, no repository, a failed git status; login required
\* by cm, a clean workspace.
LivePollInputs ==
    PollInputs({ e \in ProviderSamples : e.bEnabled },
               GitRuns(RevParseFailures, {PlainFailure}),
               PlasticRuns({AuthFailure}, {InfoOk}, {HeaderOk}, {ExecResult(TRUE, 0, <<>>, <<>>)}))

LiveTick == TickBy(Step, MaxLiveTicks)

LivePollWorkerStart == PollWorkerStartBy(Step)

LivePollWorkerFinish == PollWorkerFinishBy(Step, LivePollInputs)

LivePollWorkerReturn == PollWorkerReturnBy(Step)

LivePollComplete == PollCompleteBy(Step)

LiveNext ==
    \/ LiveTick
    \/ LivePollWorkerStart
    \/ LivePollWorkerFinish
    \/ LivePollWorkerReturn
    \/ LivePollComplete

\* The active timer keeps firing: UpdateState returns Continue, and Slate
\* calls it again while the widget is up.
LiveSpec == Init /\ [][LiveNext]_vars /\ WF_vars(LiveTick)

--------------------------------------------------------------------------
(* Polls that run to their end                                             *)

\* The polls, one for each path through the probe sequence: preferred Git,
\* preferred Plastic and no preference; git missing, no repository, a clean
\* repository, a failed git status; cm missing, login required at the first
\* call and at workspaceinfo, a clean workspace, a failed cm status.
FinishPollInputs ==
    PollInputs(ProviderSamples,
               GitRuns(RevParseFailures,
                       { ExecResult(TRUE, 0, GitHeader("0", "1"), <<>>), PlainFailure }),
               PlasticRuns({NotLaunched, AuthFailure}, {InfoOk, AuthFailure}, {HeaderOk},
                           { ExecResult(TRUE, 0, <<>>, <<>>), PlainFailure }))

FinishPollWorkerFinish == PollWorkerFinishBy(Step, FinishPollInputs)

\* A step of a poll in flight: the thread pool runs the worker, each CLI call
\* returns, and the game thread runs what was posted to it.
FinishProgress ==
    \/ PollWorkerStart
    \/ FinishPollWorkerFinish
    \/ PollWorkerReturn
    \/ PollComplete

FinishNext ==
    \/ Refresh
    \/ FinishProgress

FinishSpec == Init /\ [][FinishNext]_vars /\ WF_vars(FinishProgress)

--------------------------------------------------------------------------
(* Properties of the toolbar's state machine (Spec)                        *)

\* C1: at most one status poll is in flight at any time; a poll that is in
\* flight has the in-flight flag set, so a request made meanwhile starts no
\* second probe sequence.
SingleFlight ==
    /\ Len(pollTasks) <= 1
    /\ Len(pollTasks) = 1 => bStatusUpdateInFlight

\* A request was dropped while a probe sequence was running.
SingleFlightWitness ==
    /\ "RequestDropped" \in events
    /\ Len(pollTasks) = 1
    /\ pollTasks[1].phase = "probing"

DestructiveArgs == {"pull --rebase", "push", "update"}

\* The gate of a destructive command, on the widget's fields as they are now.
GateOf(Args) ==
    IF Args = "pull --rebase" THEN CanExecuteGitPull(Self)
    ELSE IF Args = "push" THEN CanExecuteGitPush(Self)
    ELSE CanExecutePlasticUpdate(Self)

\* C2: whenever a worker launches the process of a destructive command, the
\* command's gate holds for the snapshot and the unsaved-assets flag of that
\* moment.
LaunchOnlyWhenGateHolds ==
    [][\A i \in 1..Len(cmdTasks) :
          ( /\ cmdTasks[i].phase = "queued"
            /\ cmdTasks[i].Args \in DestructiveArgs
            /\ Len(cmdTasks') = Len(cmdTasks)
            /\ cmdTasks'[i].phase = "running" )
          => GateOf(cmdTasks[i].Args)]_vars

\* The fields of the widget.
WidgetFields ==
    << SourceControlStatus, bHasUnsavedAssets, UnsavedAssetCount, SampleUnsavedPackage,
       LastStatusLabel, LastDirtyCheckSeconds, LastSourceControlCheckSeconds,
       LastAutoFetchSeconds, LastStatusToastSeconds, bStatusUpdateInFlight,
       bHasSeenStatusLabel >>

\* C8: once the widget is gone (no reference left to pin), a poll reply or a
\* command reply changes no field of it (snapshot and in-flight flag
\* included), emits no notification and starts no poll or command.
StaleReplyDiscarded ==
    [][~WidgetValid(Self) =>
          /\ UNCHANGED WidgetFields
          /\ toasts' = <<>>
          /\ Len(pollTasks') <= Len(pollTasks)
          /\ Len(cmdTasks') <= Len(cmdTasks)
          /\ "PollStarted" \notin events']_vars

\* A reply was discarded after the widget had gone, while its flag was set.
StaleReplyWitness ==
    /\ "StaleReply" \in events
    /\ ~owned
    /\ bStatusUpdateInFlight

\* C9: the snapshot changes only in the completion of a poll, where it
\* becomes, as a whole, the status that poll produced.
OnlyPollerWritesSnapshot ==
    [][SourceControlStatus' # SourceControlStatus =>
          /\ "SnapshotInstalled" \in events'
          /\ \E i \in 1..Len(pollTasks) :
                /\ pollTasks[i].phase \in {"posted", "reply"}
                /\ SourceControlStatus' = pollTasks[i].NewStatus
                /\ Len(pollTasks') = Len(pollTasks) - 1]_vars

\* A poll installed a snapshot of a Git repository while a command was
\* outstanding.
SnapshotInstalledWitness ==
    /\ "SnapshotInstalled" \in events
    /\ SourceControlStatus.bRepo
    /\ Len(cmdTasks) = 1

--------------------------------------------------------------------------
(* Properties of the poller (PollSpec)                                     *)

AllCountsZero(Status) ==
    /\ Status.Ahead = 0 /\ Status.Behind = 0
    /\ Status.Staged = 0 /\ Status.Unstaged = 0 /\ Status.Untracked = 0

\* C10: the stored snapshot, the initial one or one a poll installed on any
\* provider path, has no repository and only zero counts when it has no
\* client, and only zero counts and an empty branch when it has no repository.
SnapshotConsistent ==
    /\ ~SourceControlStatus.bClientAvailable =>
          ~SourceControlStatus.bRepo /\ AllCountsZero(SourceControlStatus)
    /\ ~SourceControlStatus.bRepo =>
          AllCountsZero(SourceControlStatus) /\ IsEmpty(SourceControlStatus.Branch)

\* A poll installed the snapshot of a Plastic login failure: a client, no
\* repository.
SnapshotConsistentWitness ==
    /\ "SnapshotInstalled" \in events
    /\ SourceControlStatus.Provider = "Plastic"
    /\ SourceControlStatus.bClientAvailable
    /\ SourceControlStatus.bAuthRequired
    /\ ~SourceControlStatus.bRepo

--------------------------------------------------------------------------
(* Properties of the gates (GateSpec)                                      *)

TreeIsClean ==
    SourceControlStatus.Staged + SourceControlStatus.Unstaged + SourceControlStatus.Untracked = 0

canFetch ==
    /\ SourceControlStatus.Provider = "Git"
    /\ SourceControlStatus.bClientAvailable
    /\ SourceControlStatus.bRepo

canPull ==
    /\ canFetch
    /\ SourceControlStatus.bHasUpstream
    /\ SourceControlStatus.Behind > 0
    /\ TreeIsClean
    /\ ~bHasUnsavedAssets

canPush ==
    /\ canFetch
    /\ SourceControlStatus.bHasUpstream
    /\ SourceControlStatus.Ahead > 0
    /\ SourceControlStatus.Behind = 0
    /\ TreeIsClean
    /\ ~bHasUnsavedAssets

canUpdate ==
    /\ SourceControlStatus.Provider = "Plastic"
    /\ SourceControlStatus.bClientAvailable
    /\ SourceControlStatus.bRepo
    /\ TreeIsClean
    /\ ~bHasUnsavedAssets

\* C3: for every snapshot and every value of the unsaved-assets flag, the
\* four gates the menu evaluates equal canFetch, canPull, canPush, canUpdate.
GatesEqualReference ==
    menu.built =>
        /\ menu.Fetch = canFetch
        /\ menu.Pull = canPull
        /\ menu.Push = canPush
        /\ menu.Update = canUpdate

\* The menu evaluated the gates of a clean Git repository that is ahead: push
\* is open, pull is not.
GatesEqualReferenceWitness ==
    /\ menu.built
    /\ menu.Fetch /\ menu.Push /\ ~menu.Pull /\ ~menu.Update
    /\ SourceControlStatus.Ahead = MaxCount

\* C4 as amended: with unsaved assets, pull, push and update are closed,
\* whatever the snapshot; fetch does not look at unsaved assets.
UnsavedClosesMutatingGates ==
    (menu.built /\ bHasUnsavedAssets) => (~menu.Pull /\ ~menu.Push /\ ~menu.Update)

\* The menu evaluated the gates with unsaved assets over a Plastic workspace
\* that is clean: update is closed.
UnsavedClosesMutatingGatesWitness ==
    /\ menu.built
    /\ bHasUnsavedAssets
    /\ SourceControlStatus.Provider = "Plastic"
    /\ SourceControlStatus.bClientAvailable /\ SourceControlStatus.bRepo
    /\ TreeIsClean
    /\ ~menu.Update

\* C4 as stated: with unsaved assets every gate, fetch included, is closed.
UnsavedClosesEveryGate ==
    (menu.built /\ bHasUnsavedAssets) =>
        (~menu.Fetch /\ ~menu.Pull /\ ~menu.Push /\ ~menu.Update)

\* C5: pull and push are never open together.
PullAndPushExclusive == menu.built => ~(menu.Pull /\ menu.Push)

\* The menu evaluated the gates of a clean, saved, diverged Git repository.
PullAndPushExclusiveWitness ==
    /\ menu.built
    /\ canFetch /\ SourceControlStatus.bHasUpstream /\ TreeIsClean /\ ~bHasUnsavedAssets
    /\ SourceControlStatus.Ahead > 0 /\ SourceControlStatus.Behind > 0
    /\ ~menu.Push

Diverged == SourceControlStatus.Ahead > 0 /\ SourceControlStatus.Behind > 0

--------------------------------------------------------------------------
(* Properties of the toolbar over time (TimerSpec)                         *)

\* C7: when the label changed twice within the minimum interval and the
\* interval has since passed, exactly one status-change notification was
\* produced for the two changes, and it carries the second label.
DebounceKeepsLatest ==
    ( /\ Len(hist) = 2
      /\ hist[2].at - hist[1].at < MinInterval
      /\ now - hist[2].at >= MinInterval )
    => hist[1].toasts \o hist[2].toasts = <<hist[2].label>>

--------------------------------------------------------------------------
(* Properties of the stored snapshot, continued (PollSpec)                 *)

\* C11: in the stored snapshot, and in every status a poll produced, the
\* login flag is set only with provider Plastic: no Git status and no
\* combined status (provider None) has it.
AuthRequiredOnlyPlastic ==
    /\ SourceControlStatus.bAuthRequired => SourceControlStatus.Provider = "Plastic"
    /\ \A i \in 1..Len(pollTasks) :
          pollTasks[i].NewStatus.bAuthRequired => pollTasks[i].NewStatus.Provider = "Plastic"

\* A poll installed a Plastic workspace whose later call failed with a login
\* error.
AuthRequiredOnlyPlasticWitness ==
    /\ "SnapshotInstalled" \in events
    /\ SourceControlStatus.bAuthRequired
    /\ SourceControlStatus.Provider = "Plastic"
    /\ SourceControlStatus.bRepo

--------------------------------------------------------------------------
(* Properties of one poll (ProbeSpec)                                      *)

\* The probe sequence has run.
Probed == hist # <<>>

\* The status the poll produced: waiting in the reply, then the snapshot.
ProbedStatus == IF pollTasks # <<>> THEN pollTasks[1].NewStatus ELSE SourceControlStatus

ProbedGit == TryPopulateGitStatus(hist[1].Cli.RevParse, hist[1].Cli.GitStatus)

ProbedPlastic ==
    TryPopulatePlasticStatus(hist[1].Cli.Ws, hist[1].Cli.Info, hist[1].Cli.Header, hist[1].Cli.St)

CallsTo(Exe) == { k \in 1..Len(hist[1].Calls) : hist[1].Calls[k].Exe = Exe }

\* C12: with preference Git or Plastic the poll calls only that provider's
\* tool, its status is that provider's status whatever the other tool would
\* have answered, and when the provider finds no repository the status has
\* that provider and no repository.
PreferenceIsAuthoritative ==
    (Probed /\ hist[1].Preferred # "None") =>
        LET bGit == hist[1].Preferred = "Git"
            Own == IF bGit THEN ProbedGit ELSE ProbedPlastic
        IN  /\ CallsTo(IF bGit THEN "cm" ELSE "git") = {}
            /\ CallsTo(IF bGit THEN "git" ELSE "cm") # {}
            /\ ProbedStatus = Own.OutStatus
            /\ ProbedStatus.Provider = hist[1].Preferred
            /\ ~Own.found => ~ProbedStatus.bRepo

\* Preference Git, no Git repository, a Plastic workspace at hand: the
\* installed snapshot is Git's, without a repository.
PreferenceIsAuthoritativeWitness ==
    /\ Probed
    /\ pollTasks = <<>>
    /\ hist[1].Preferred = "Git"
    /\ hist[1].Cli.Ws = WsOk
    /\ SourceControlStatus.Provider = "Git"
    /\ SourceControlStatus.bClientAvailable
    /\ ~SourceControlStatus.bRepo

\* C13: without a preference the poll calls git first and cm only after git
\* found no repository; when Git finds a repository the status is the Git
\* status, and when only Plastic finds one it is the Plastic status.
GitFirstThenPlastic ==
    (Probed /\ hist[1].Preferred = "None") =>
        /\ hist[1].Calls[1].Exe = "git"
        /\ \A j \in CallsTo("cm"), k \in CallsTo("git") : k < j
        /\ (CallsTo("cm") # {}) = ~ProbedGit.found
        /\ ProbedGit.found => ProbedStatus = ProbedGit.OutStatus
        /\ (~ProbedGit.found /\ ProbedPlastic.found) => ProbedStatus = ProbedPlastic.OutStatus

\* Without a preference, git found nothing and the installed snapshot is the
\* Plastic workspace's.
GitFirstThenPlasticWitness ==
    /\ Probed
    /\ pollTasks = <<>>
    /\ hist[1].Preferred = "None"
    /\ CallsTo("git") # {} /\ CallsTo("cm") # {}
    /\ SourceControlStatus.Provider = "Plastic"
    /\ SourceControlStatus.bRepo

HasLineStarting(Text, Prefix) ==
    \E k \in 1..Len(ParseIntoArrayLines(Text)) : StartsWith(ParseIntoArrayLines(Text)[k], Prefix)

\* C14: without a preference, when neither probe finds a repository the
\* status has provider None, no repository, a client iff either tool was
\* found, and an error text with a "Git:" line and a "Plastic SCM:" line.
NeitherFoundCombinesBoth ==
    (Probed /\ hist[1].Preferred = "None" /\ ~ProbedGit.found /\ ~ProbedPlastic.found) =>
        /\ ProbedStatus.Provider = "None"
        /\ ~ProbedStatus.bRepo
        /\ ProbedStatus.bClientAvailable = (hist[1].Cli.RevParse.launched \/ hist[1].Cli.Ws.launched)
        /\ HasLineStarting(ProbedStatus.LastError, <<"G","i","t",":">>)
        /\ HasLineStarting(ProbedStatus.LastError, <<"P","l","a","s","t","i","c"," ","S","C","M",":">>)

\* C15: when a cm call the poll made was answered with a login indicator on
\* stderr, the status the poll produced has the login flag, whatever the
\* call's exit code.
AuthIndicatorSetsAuthRequired ==
    (Probed /\ \E k \in CallsTo("cm") : IsPlasticAuthError(hist[1].Calls[k].Result.StdErr))
        => ProbedStatus.bAuthRequired

\* C16: with preference Plastic, when getworkspacefrompath was launched and
\* exited with 0 and empty stdout, the status has no repository and the error
\* "Plastic SCM workspace root not found."
EmptyWorkspaceOutputIsRootNotFound ==
    ( /\ Probed
      /\ hist[1].Preferred = "Plastic"
      /\ hist[1].Cli.Ws.launched
      /\ hist[1].Cli.Ws.ExitCode = 0
      /\ IsEmpty(hist[1].Cli.Ws.StdOut) )
    => /\ ~ProbedStatus.bRepo
       /\ ProbedStatus.LastError = PlasticRootNotFound
       /\ ProbedPlastic.OutError = PlasticRootNotFound

--------------------------------------------------------------------------
(* Properties of the Git status parser (ParseSpec)                         *)

\* The lines of the parsed output that satisfy Test.
LinesWhere(Test(_)) == { k \in 1..Len(hist[1].Lines) : Test(hist[1].Lines[k]) }

IsChangedEntry(Line) == StartsWith(Line, <<"1"," ">>) \/ StartsWith(Line, <<"2"," ">>)

IsUnmergedEntry(Line) == StartsWith(Line, <<"u"," ">>)

IsUntrackedEntry(Line) == StartsWith(Line, <<"?"," ">>)

IsHeadLine(Line) == StartsWith(Line, BranchHeadPrefix)

IsUpstreamLine(Line) == StartsWith(Line, BranchUpstreamPrefix)

IsAbLine(Line) == StartsWith(Line, BranchAbPrefix)

\* The index-status character is not '.'.
IsStagedEntry(Line) == IsChangedEntry(Line) /\ Len(Line) > 3 /\ Line[3] # "."

\* The worktree-status character is not '.'.
IsUnstagedEntry(Line) == IsChangedEntry(Line) /\ Len(Line) > 3 /\ Line[4] # "."

HasStatusCharU(Line) == IsChangedEntry(Line) /\ Len(Line) > 3 /\ (Line[3] = "U" \/ Line[4] = "U")

\* C17 as amended: staged and unstaged each never exceed the number of "1 " /
\* "2 " lines, so their sum never exceeds twice that number; an entry changed
\* in the index and in the work tree counts in both.
StagedAndUnstagedBounded ==
    Probed =>
        /\ ProbedStatus.Staged <= Cardinality(LinesWhere(IsChangedEntry))
        /\ ProbedStatus.Unstaged <= Cardinality(LinesWhere(IsChangedEntry))
        /\ ProbedStatus.Staged + ProbedStatus.Unstaged <= 2 * Cardinality(LinesWhere(IsChangedEntry))

\* The installed snapshot counts every changed entry of the output in both
\* staged and unstaged.
StagedAndUnstagedBoundedWitness ==
    /\ Probed
    /\ pollTasks = <<>>
    /\ Cardinality(LinesWhere(IsChangedEntry)) = 2
    /\ SourceControlStatus.Staged = 2
    /\ SourceControlStatus.Unstaged = 2

\* C17 as stated: staged + unstaged never exceeds the number of "1 " / "2 "
\* lines.
StagedPlusUnstagedWithinEntries ==
    Probed => ProbedStatus.Staged + ProbedStatus.Unstaged <= Cardinality(LinesWhere(IsChangedEntry))

\* C18: the status has conflicts exactly when the output has a "u " line or a
\* "1 " / "2 " line with 'U' as its index-status or worktree-status character.
ConflictsIffUnmerged ==
    Probed =>
        ProbedStatus.bHasConflicts =
            (LinesWhere(IsUnmergedEntry) # {} \/ LinesWhere(HasStatusCharU) # {})

\* The installed snapshot has conflicts from a 'U' status character alone.
ConflictsIffUnmergedWitness ==
    /\ Probed
    /\ pollTasks = <<>>
    /\ LinesWhere(IsUnmergedEntry) = {}
    /\ LinesWhere(HasStatusCharU) # {}
    /\ SourceControlStatus.bHasConflicts

\* The last line of the output that satisfies Test (there is one).
LastLineWhere(Test(_)) ==
    hist[1].Lines[CHOOSE k \in LinesWhere(Test) : \A j \in LinesWhere(Test) : j <= k]

\* "# branch.ab +a -b" for digits a and b.
AbLine(a, b) == BranchAbPrefix \o <<"+", DigitChar[a + 1], " ", "-", DigitChar[b + 1]>>

\* The input of the example: branch.head main, branch.ab +2 -0, one "1 .M"
\* line and one "? " line.
ExampleLines ==
    << BranchHeadPrefix \o <<"m","a","i","n">>,
       AbLine(2, 0),
       <<"1"," ",".","M"," ","f">>,
       <<"?"," ","f">> >>

\* C19: each line is classified on its own: the branch is the name of the
\* last branch.head line, hasUpstream holds iff there is a branch.upstream
\* line, ahead and behind are N and M of the last "# branch.ab +N -M" line,
\* staged and unstaged count the "1 " / "2 " lines whose character at offset 2,
\* respectively 3, is not '.', untracked counts the "? " lines; the example
\* input gives main, 2, 0, 0, 1, 1, no conflicts, and a closed push gate.
LinesClassifiedIndependently ==
    Probed =>
        /\ ProbedStatus.Branch =
              (IF LinesWhere(IsHeadLine) = {} THEN <<>>
               ELSE RightChop(LastLineWhere(IsHeadLine), Len(BranchHeadPrefix)))
        /\ ProbedStatus.bHasUpstream = (LinesWhere(IsUpstreamLine) # {})
        /\ IF LinesWhere(IsAbLine) = {}
           THEN ProbedStatus.Ahead = 0 /\ ProbedStatus.Behind = 0
           ELSE LastLineWhere(IsAbLine) = AbLine(ProbedStatus.Ahead, ProbedStatus.Behind)
        /\ ProbedStatus.Staged = Cardinality(LinesWhere(IsStagedEntry))
        /\ ProbedStatus.Unstaged = Cardinality(LinesWhere(IsUnstagedEntry))
        /\ ProbedStatus.Untracked = Cardinality(LinesWhere(IsUntrackedEntry))
        /\ hist[1].Lines = ExampleLines =>
              /\ ProbedStatus.Branch = <<"m","a","i","n">>
              /\ ProbedStatus.Ahead = 2 /\ ProbedStatus.Behind = 0
              /\ ProbedStatus.Staged = 0 /\ ProbedStatus.Unstaged = 1
              /\ ProbedStatus.Untracked = 1
              /\ ~ProbedStatus.bHasConflicts
              /\ pollTasks = <<>> => ~CanExecuteGitPush(Self)

\* The snapshot installed from the example input.
LinesClassifiedIndependentlyWitness ==
    /\ Probed
    /\ pollTasks = <<>>
    /\ hist[1].Lines = ExampleLines
    /\ SourceControlStatus.Ahead = 2
    /\ SourceControlStatus.Unstaged = 1
    /\ SourceControlStatus.Untracked = 1
    /\ ~CanExecuteGitPush(Self)

--------------------------------------------------------------------------
(* Properties of the command executor (CmdSpec)                            *)

\* The last step completed a command and its lambda found the widget.
CompletedLive == hist.Done # <<>> /\ hist.Done[1].bLive

\* The last step showed a toast with this key and this outcome.
Notified(Key, bSuccess) ==
    \E k \in 1..Len(toasts) : toasts[k].Key = Key /\ toasts[k].bSuccess = bSuccess

\* The last step showed Text as a failure.
NotifiedError(Text) ==
    \E k \in 1..Len(toasts) :
        toasts[k].Key = "ErrorText" /\ toasts[k].Text = Text /\ ~toasts[k].bSuccess

\* C20: for every command whose completion reaches a live widget, success is
\* launched and exit code 0; a failed command shows its failure notification,
\* and its error text cut to at most 200 characters when it has one, also when
\* the command is silent on success; a successful command shows its success
\* notification iff it is not silent on success, and no failure.
FailuresAlwaysSurface ==
    CompletedLive =>
        LET c == hist.Done[1].Task
            Result == hist.Done[1].Result
            ErrorText == TrimCopy(Result.StdErr)
        IN  /\ c.bSuccess = (Result.launched /\ Result.ExitCode = 0)
            /\ ~c.bSuccess =>
                  /\ Notified(c.FailureMessage, FALSE)
                  /\ ~Notified(c.SuccessMessage, TRUE)
                  /\ ~IsEmpty(ErrorText) =>
                        \E Text \in {Left(ErrorText, 200)} :
                            Len(Text) <= 200 /\ NotifiedError(Text)
            /\ c.bSuccess =>
                  /\ Notified(c.SuccessMessage, TRUE) = ~c.bSilentSuccess
                  /\ \A k \in 1..Len(toasts) : toasts[k].bSuccess

\* An automatic fetch failed with the long error text: the lambda showed the
\* failure and the first 200 characters of the text.
FailuresAlwaysSurfaceWitness ==
    /\ CompletedLive
    /\ hist.Done[1].Task.bSilentSuccess
    /\ hist.Done[1].Result.ExitCode = 128
    /\ Notified("AutoFetchFail", FALSE)
    /\ NotifiedError([k \in 1..200 |-> "x"])

--------------------------------------------------------------------------
(* Properties of the automatic fetch (CmdSpec)                             *)

\* The automatic fetch as RunGitCommandAsync queues it.
IsAutoFetch(c) ==
    /\ c.Exe = "git" /\ c.Args = "fetch --prune"
    /\ c.bSilentSuccess /\ c.bRefreshAfter
    /\ c.FailureMessage = "AutoFetchFail"

\* C21: an automatic "fetch --prune" is issued only in a tick in which
\* automatic fetch is enabled, the snapshot's provider is Git with the client
\* available and a repository, no poll is in flight (before the tick and after
\* its own request), and the clock is at least max(10 s, configured interval)
\* past the last stamp; the tick that issues it stamps the clock.  No other
\* step queues a silent command.
AutoFetchOnlyWhenDue ==
    [][ ("AutoFetch" \in events' \/ \E k \in 1..Len(cmdTasks') :
                                       k > Len(cmdTasks) /\ cmdTasks'[k].bSilentSuccess) =>
          /\ "AutoFetch" \in events'
          /\ bAutoFetch
          /\ SourceControlStatus.Provider = "Git"
          /\ SourceControlStatus.Provider \notin {"Plastic", "None"}
          /\ SourceControlStatus.bClientAvailable /\ SourceControlStatus.bRepo
          /\ ~bStatusUpdateInFlight /\ ~bStatusUpdateInFlight'
          /\ now' - LastAutoFetchSeconds >= Max(100, AutoFetchIntervalSeconds)
          /\ LastAutoFetchSeconds' = now'
          /\ Len(cmdTasks') = Len(cmdTasks) + 1
          /\ IsAutoFetch(cmdTasks'[Len(cmdTasks')])
          /\ cmdTasks'[Len(cmdTasks')].phase = "queued" ]_vars

\* A tick has just issued the automatic fetch and stamped the clock.
AutoFetchOnlyWhenDueWitness ==
    /\ "AutoFetch" \in events
    /\ cmdTasks # <<>>
    /\ IsAutoFetch(cmdTasks[Len(cmdTasks)])
    /\ LastAutoFetchSeconds = now
    /\ ~bStatusUpdateInFlight

--------------------------------------------------------------------------
(* Properties of the poller's requests (Spec)                              *)

\* C22: a request made while a poll is in flight is dropped, not queued: it
\* changes no field of the widget, the step that makes it leaves the polls as
\* they are, and the completion of the poll in flight starts no poll; a poll
\* starts only in a step that makes a request while none is in flight.
DroppedNotQueued ==
    [][ /\ bStatusUpdateInFlight =>
              [RequestSourceControlStatusUpdate(Self) EXCEPT !.events = {}] = Self
        /\ "RequestDropped" \in events' =>
              /\ bStatusUpdateInFlight /\ bStatusUpdateInFlight'
              /\ pollTasks' = pollTasks
        /\ "SnapshotInstalled" \in events' =>
              /\ Len(pollTasks') = Len(pollTasks) - 1
              /\ ~bStatusUpdateInFlight'
              /\ "PollStarted" \notin events'
        /\ Len(pollTasks') > Len(pollTasks) =>
              /\ ~bStatusUpdateInFlight
              /\ "PollStarted" \in events'
              /\ "RequestDropped" \notin events' ]_vars

\* A request has just been dropped while the reply of the poll in flight
\* waits for the game thread: that poll is the only one there is.
DroppedNotQueuedWitness ==
    /\ "RequestDropped" \in events
    /\ bStatusUpdateInFlight
    /\ Len(pollTasks) = 1
    /\ pollTasks[1].phase = "reply"
    /\ owned

--------------------------------------------------------------------------
(* Properties of the periodic poll (LiveSpec)                              *)

\* The last clock reading that leaves a poll interval of ticks.
LiveHorizon == StartSeconds + MaxLiveTicks * TimerPeriod - GitInterval

\* C23: after a poll completes, whatever snapshot it installed (client
\* missing, no repository, login required, a failed sub-command), another poll
\* is eventually started, as long as the timer ticks.
PollerAlwaysRetries ==
    ("SnapshotInstalled" \in events /\ now <= LiveHorizon) ~> ("PollStarted" \in events)

\* The timer has just started a poll while the snapshot is one that a poll
\* installed with an error.
PollerAlwaysRetriesWitness ==
    /\ "PollStarted" \in events
    /\ ~IsEmpty(SourceControlStatus.LastError)
    /\ ~SourceControlStatus.bRepo
    /\ owned

--------------------------------------------------------------------------
(* Properties of the poll's completion (CmdSpec)                           *)

\* C24: the completion of a poll is one step of the game thread: the step
\* that replaces the snapshot is the step that clears the in-flight flag and
\* runs change detection, so no tick, gate, automatic-fetch check or request
\* (each a step of its own) sees the new snapshot with the flag set, or the
\* flag cleared with the old snapshot.
CompletionIsIndivisible ==
    [][ /\ SourceControlStatus' # SourceControlStatus =>
              "SnapshotInstalled" \in events' /\ ~bStatusUpdateInFlight'
        /\ (bStatusUpdateInFlight /\ ~bStatusUpdateInFlight') =>
              /\ "SnapshotInstalled" \in events'
              /\ \E i \in 1..Len(pollTasks) :
                    /\ pollTasks[i].phase \in {"posted", "reply"}
                    /\ SourceControlStatus' = pollTasks[i].NewStatus
                    /\ pollTasks' = RemoveAt(pollTasks, i)
        /\ "SnapshotInstalled" \in events' =>
              /\ ~bStatusUpdateInFlight'
              /\ bHasSeenStatusLabel'
              /\ LastStatusLabel' = GetLabel([Self EXCEPT !.SourceControlStatus = SourceControlStatus']) ]_vars

\* A completion has just replaced the snapshot, cleared the flag and notified
\* the change of the label.
CompletionIsIndivisibleWitness ==
    /\ "SnapshotInstalled" \in events
    /\ SourceControlStatus.bRepo
    /\ ~bStatusUpdateInFlight
    /\ LastStatusLabel = GetLabel(Self)
    /\ \E k \in 1..Len(toasts) : toasts[k].Key = "StatusChange"

--------------------------------------------------------------------------
(* Properties of polls that run to their end (FinishSpec)                  *)

\* C25: every poll that starts eventually installs a snapshot and clears the
\* in-flight flag, on every path through the probe sequence, as long as each
\* CLI call returns and the widget stays up; the flag is never set without a
\* poll in flight.
PollStartedFinishes ==
    /\ [](bStatusUpdateInFlight => pollTasks # <<>>)
    /\ bStatusUpdateInFlight ~> ("SnapshotInstalled" \in events /\ ~bStatusUpdateInFlight)

\* A poll that returned early on a login error has installed its snapshot and
\* cleared the flag.
PollStartedFinishesWitness ==
    /\ "SnapshotInstalled" \in events
    /\ SourceControlStatus.bAuthRequired
    /\ ~bStatusUpdateInFlight
    /\ pollTasks = <<>>

--------------------------------------------------------------------------
(* Properties of the first poll after construction (ProbeSpec)             *)

\* C26: no status-change notification is produced at startup: neither
\* Construct, whose change detection is the first observation, nor the
\* completion of the first poll shows one.
NoStartupToast == \A k \in 1..Len(toasts) : toasts[k].Key # "StatusChange"

--------------------------------------------------------------------------
(* Properties of change detection (TimerSpec)                              *)

\* The status-change notifications among Toasts.
StatusToasts(Toasts) == { k \in 1..Len(Toasts) : Toasts[k].Key = "StatusChange" }

\* C27: the label stored for change detection is the last-notified label: a
\* step changes it only when it emits a status-change notification and stamps
\* the time, or when it is the first observation.
StoredLabelIsLastNotified ==
    [][ LastStatusLabel' # LastStatusLabel =>
          \/ ~bHasSeenStatusLabel
          \/ StatusToasts(toasts') # {} /\ LastStatusToastSeconds' = now' ]_vars

\* C28: any two status-change notifications are at least max(0.5 s,
\* StatusToastMinIntervalSeconds) apart: a step emits at most one, only when
\* that long has passed since the stamp, and the stamp is the time of the last
\* notification.
ToastsSpacedByMinInterval ==
    [][ /\ Cardinality(StatusToasts(toasts')) <= 1
        /\ StatusToasts(toasts') # {} =>
              /\ now' - LastStatusToastSeconds >= Max(5, StatusToastMinIntervalSeconds)
              /\ LastStatusToastSeconds' = now'
        /\ StatusToasts(toasts') = {} => LastStatusToastSeconds' = LastStatusToastSeconds ]_vars

\* Two label changes were each notified, the second one as soon as the
\* minimum interval after the first had passed.
ToastsSpacedByMinIntervalWitness ==
    /\ Len(hist) = 2
    /\ hist[1].toasts # <<>>
    /\ hist[2].toasts # <<>>
    /\ hist[2].at - hist[1].at = MinInterval
    /\ LastStatusToastSeconds = hist[2].at

--------------------------------------------------------------------------
(* Properties of commands and polls together (CmdSpec)                     *)

\* The widget as it is, with the in-flight flag set and with it clear.
PollInFlight == [Self EXCEPT !.bStatusUpdateInFlight = TRUE]

PollIdle == [Self EXCEPT !.bStatusUpdateInFlight = FALSE]

\* The gates and the two executors answer the same with the flag set and with
\* it clear.
ManualCommandsIgnoreFlag ==
    /\ CanExecuteGitCommand(PollInFlight) = CanExecuteGitCommand(PollIdle)
    /\ CanExecuteGitPull(PollInFlight) = CanExecuteGitPull(PollIdle)
    /\ CanExecuteGitPush(PollInFlight) = CanExecuteGitPush(PollIdle)
    /\ CanExecutePlasticUpdate(PollInFlight) = CanExecutePlasticUpdate(PollIdle)
    /\ ExecuteGitFetch(PollInFlight).cmdTasks = ExecuteGitFetch(PollIdle).cmdTasks
    /\ \A d \in {"pull", "push", "update"} :
          DialogReturns([PollInFlight EXCEPT !.dialog = d], TRUE).cmdTasks
             = DialogReturns([PollIdle EXCEPT !.dialog = d], TRUE).cmdTasks

\* A request made while a command is queued or running starts a poll when
\* none is in flight.
PollStartsBesideCommand ==
    (cmdTasks # <<>> /\ ~bStatusUpdateInFlight) =>
        Len(RequestSourceControlStatusUpdate(Self).pollTasks) = Len(pollTasks) + 1

\* C29 as amended: no manual command (fetch, pull, push, update) is gated by
\* the poller's in-flight flag, and a poll starts while a command is running;
\* the automatic fetch alone waits for the flag: while it is set, the timer
\* issues none.
OnlyAutoFetchWaitsForPoll ==
    /\ ManualCommandsIgnoreFlag
    /\ PollStartsBesideCommand
    /\ AutoFetchStep(PollInFlight) = PollInFlight

\* The process of a manual command has just been launched while a poll is
\* probing.
OnlyAutoFetchWaitsForPollWitness ==
    /\ "Launch" \in events
    /\ cmdTasks # <<>>
    /\ cmdTasks[1].phase = "running" /\ ~cmdTasks[1].bSilentSuccess
    /\ bStatusUpdateInFlight
    /\ pollTasks # <<>>
    /\ pollTasks[1].phase = "probing"

\* C29 as stated: no command, manual or automatic, is gated by the in-flight
\* flag, and a poll starts while a command is running.
NoCommandWaitsForPoll ==
    /\ ManualCommandsIgnoreFlag
    /\ PollStartsBesideCommand
    /\ AutoFetchStep(PollInFlight).cmdTasks = AutoFetchStep(PollIdle).cmdTasks

--------------------------------------------------------------------------
(* Properties of the Git probe (ProbeSpec)                                 *)

\* C30: with Git preferred, the status a poll produces tells the outcomes of
\* the Git probe apart: rev-parse not launched gives no client, no repository
\* and the error "Git executable not found."; rev-parse with a non-zero exit
\* code gives a client, no repository and the trimmed stderr as error;
\* rev-parse succeeding and the status call failing gives a client, a
\* repository, the status call's trimmed stderr as error and only zero counts.
GitOutcomesDistinguished ==
    (Probed /\ hist[1].Preferred = "Git") =>
        LET RevParse == hist[1].Cli.RevParse
            GitStatus == hist[1].Cli.GitStatus
            Status == ProbedStatus
        IN  /\ Status.Provider = "Git"
            /\ ~RevParse.launched =>
                  /\ ~Status.bClientAvailable /\ ~Status.bRepo
                  /\ Status.LastError = <<"G","i","t"," ","e","x","e","c","u","t","a","b","l","e"," ",
                                          "n","o","t"," ","f","o","u","n","d",".">>
            /\ (RevParse.launched /\ RevParse.ExitCode # 0) =>
                  /\ Status.bClientAvailable /\ ~Status.bRepo
                  /\ Status.LastError = TrimCopy(RevParse.StdErr)
            /\ (RevParse.launched /\ RevParse.ExitCode = 0
                  /\ ~(GitStatus.launched /\ GitStatus.ExitCode = 0)) =>
                  /\ Status.bClientAvailable /\ Status.bRepo
                  /\ Status.LastError = TrimCopy(GitStatus.StdErr)
                  /\ AllCountsZero(Status) /\ ~Status.bHasConflicts

\* The installed snapshot of a repository whose status call failed with "err".
GitOutcomesDistinguishedWitness ==
    /\ Probed /\ hist[1].Preferred = "Git"
    /\ pollTasks = <<>>
    /\ hist[1].Cli.RevParse = RevParseOk
    /\ hist[1].Cli.GitStatus.ExitCode # 0
    /\ SourceControlStatus.bClientAvailable /\ SourceControlStatus.bRepo
    /\ SourceControlStatus.LastError = <<"e","r","r">>

--------------------------------------------------------------------------
(* Properties of the Plastic probe (ProbeSpec)                             *)

\* A call that fails with exit code 1 and "Unauthorized: token expired".
LoginRefused == Unauthorized(1, <<>>)

\* The position, among the calls made, of the first call that was refused;
\* 0 when none was.
FirstRefusedCall ==
    LET Refused == { k \in 1..Len(hist[1].Calls) : hist[1].Calls[k].Result = LoginRefused }
    IN  IF Refused = {} THEN 0 ELSE CHOOSE k \in Refused : \A j \in Refused : k <= j

\* A poll with Plastic preferred in which some call was refused.
PlasticLoginRefused == Probed /\ hist[1].Preferred = "Plastic" /\ FirstRefusedCall > 0

\* C31 (as amended): with Plastic preferred, the first call refused for a
\* login error is the last call of the pass and the status has authRequired
\* set and the refusal as lastError. Refused at workspaceinfo, the header call
\* or the status call, the status is a repo and keeps what the earlier calls
\* gave (root and workspace name; the branch after workspaceinfo; upstream
\* after the header); refused at getworkspacefrompath, it is not a repo.
LoginRefusalKeepsPartialStatus ==
    PlasticLoginRefused =>
        LET k == FirstRefusedCall
            Status == ProbedStatus
        IN  /\ Len(hist[1].Calls) = k
            /\ Status.Provider = "Plastic" /\ Status.bClientAvailable /\ Status.bAuthRequired
            /\ Status.LastError = <<"U","n","a","u","t","h","o","r","i","z","e","d",":"," ",
                                    "t","o","k","e","n"," ","e","x","p","i","r","e","d">>
            /\ Status.bRepo <=> (k > 1)
            /\ Status.RepoRoot = (IF k > 1 THEN <<"/","p">> ELSE <<>>)
            /\ Status.WorkspaceName = (IF k > 1 THEN <<"w">> ELSE <<>>)
            /\ Status.Branch = (IF k > 2 THEN <<"/","m">> ELSE <<>>)
            /\ Status.bHasUpstream <=> (k > 3)
            /\ AllCountsZero(Status) /\ ~Status.bHasConflicts

\* The installed snapshot of a poll whose header call was refused: a repo with
\* the branch of workspaceinfo and no upstream.
LoginRefusalKeepsPartialStatusWitness ==
    /\ PlasticLoginRefused /\ FirstRefusedCall = 3
    /\ pollTasks = <<>>
    /\ SourceControlStatus.bRepo /\ SourceControlStatus.bAuthRequired
    /\ SourceControlStatus.Branch = <<"/","m">>
    /\ ~SourceControlStatus.bHasUpstream

\* C31 (as stated): with Plastic preferred, the first call refused for a login
\* error, whichever of the four it is, is the last call of the pass and the
\* status is a repo with authRequired set.
LoginRefusalAlwaysKeepsRepo ==
    PlasticLoginRefused =>
        /\ Len(hist[1].Calls) = FirstRefusedCall
        /\ ProbedStatus.bRepo /\ ProbedStatus.bAuthRequired

--------------------------------------------------------------------------
(* One poll of a Plastic workspace, over the lines of its header           *)

\* The header has at most MaxHeaderLines lines.
MaxHeaderLines == 2

\* The changeset numbers a header line may name.
Changesets == {0, 1, 2, 12}

\* What one header line names: cs and head are <<n>> when the line names the
\* changeset n, and <<>> when it names none.
HeaderFields ==
    { [cs |-> c, head |-> h] :
        c \in {<<>>} \cup { <<n>> : n \in Changesets },
        h \in {<<>>} \cup { <<n>> : n \in Changesets } }

\* The header line "(cs:<n> - head:<n>)", with the parts the line names.
HeaderLineOf(f) ==
    <<"(">>
    \o (IF f.cs # <<>> THEN <<"c","s",":">> \o Itoa(f.cs[1]) ELSE <<>>)
    \o <<" ","-"," ">>
    \o (IF f.head # <<>> THEN <<"h","e","a","d",":">> \o Itoa(f.head[1]) ELSE <<>>)
    \o <<")">>

\* cm status: clean, a changed file, a private file, a file in conflict, and a
\* failed call.
HeaderStatusSamples ==
    { ExecResult(TRUE, 0, <<>>, <<>>),
      ExecResult(TRUE, 0, PlasticLineStart \o <<"C","H","|","f">> \o PlasticLineEnd \o <<"\n">>, <<>>),
      ExecResult(TRUE, 0, PlasticLineStart \o <<"P","R","|","f">> \o PlasticLineEnd \o <<"\n">>, <<>>),
      ExecResult(TRUE, 0, PlasticLineStart \o <<"C","H","|","f","|","M","E","R","G","E">>
                              \o PlasticLineEnd \o <<"\n">>, <<>>),
      ExecResult(TRUE, 1, <<>>, <<"e","r","r","\n">>) }

\* The worker's probe sequence with provider preference Plastic, in a
\* workspace whose header call writes the lines of Fields; what the lines name
\* and the answer of the status call are kept in the history.
HeaderRuns ==
    \E i \in 1..Len(pollTasks), n \in 0..MaxHeaderLines :
        /\ pollTasks[i].phase = "probing"
        /\ \E Fields \in [1..n -> HeaderFields], St \in HeaderStatusSamples :
              /\ Install(PollWorkerEnds(Self, i, "Plastic",
                    CliOf(NoGitRun,
                          [ Ws |-> WsOk, Info |-> InfoOk,
                            Header |-> ExecResult(TRUE, 0,
                                          JoinLines([k \in 1..n |-> HeaderLineOf(Fields[k])]), <<>>),
                            St |-> St ])))
              /\ hist' = << [Fields |-> Fields, St |-> St] >>
              /\ UNCHANGED menu

HeaderNext ==
    \/ PollWorkerStart
    \/ HeaderRuns
    \/ PollWorkerReturn
    \/ PollComplete

HeaderSpec == Init /\ [][HeaderNext]_vars

--------------------------------------------------------------------------
(* Properties of the Plastic header (HeaderSpec)                           *)

\* The changeset the last line naming one names, as <<n>>; <<>> when no line
\* names one.
LastNamed(Values) ==
    LET Named == { k \in 1..Len(Values) : Values[k] # <<>> }
    IN  IF Named = {} THEN <<>>
        ELSE Values[CHOOSE k \in Named : \A j \in Named : j <= k]

HeaderCs == LastNamed([k \in 1..Len(hist[1].Fields) |-> hist[1].Fields[k].cs])

HeaderHead == LastNamed([k \in 1..Len(hist[1].Fields) |-> hist[1].Fields[k].head])

\* C32: for a Plastic status, with cs and head the changesets found in the
\* header, hasUpstream holds iff both were found, behind = max(0, head - cs)
\* and ahead = max(0, cs - head); ahead and behind are never negative and never
\* both positive, and staged is 0.
PlasticNeverDiverged ==
    Probed =>
        LET Status == ProbedStatus
            bBoth == HeaderCs # <<>> /\ HeaderHead # <<>>
            cs == HeaderCs[1]
            head == HeaderHead[1]
        IN  /\ Status.Provider = "Plastic"
            /\ Status.bHasUpstream <=> bBoth
            /\ Status.Behind = (IF bBoth /\ head > cs THEN head - cs ELSE 0)
            /\ Status.Ahead = (IF bBoth /\ cs > head THEN cs - head ELSE 0)
            /\ Status.Ahead >= 0 /\ Status.Behind >= 0
            /\ ~(Status.Ahead > 0 /\ Status.Behind > 0)
            /\ Status.Staged = 0

\* The installed snapshot of a workspace at changeset 2 whose head, named on
\* another line, is 12.
PlasticNeverDivergedWitness ==
    /\ Probed /\ pollTasks = <<>>
    /\ Len(hist[1].Fields) = 2
    /\ hist[1].Fields[1] = [cs |-> <<2>>, head |-> <<>>]
    /\ hist[1].Fields[2] = [cs |-> <<>>, head |-> <<12>>]
    /\ SourceControlStatus.bHasUpstream
    /\ SourceControlStatus.Behind = 10 /\ SourceControlStatus.Ahead = 0

--------------------------------------------------------------------------
(* The label and the menu after a poll                                     *)

\* "u UU f": an unmerged entry.
GitUnmergedLine == <<"u"," ","U","U"," ","f","\n">>

\* "? f": an untracked file.
GitUntrackedLine == <<"?"," ","f","\n">>

\* git status: in step with upstream, behind, ahead, diverged, each clean;
\* behind with a modified file, behind with an unmerged entry only, ahead with
\* an untracked file; and a failed call.
MenuGitStatuses ==
    { ExecResult(TRUE, 0, GitHeader("0", "0"), <<>>),
      ExecResult(TRUE, 0, GitHeader("0", "2"), <<>>),
      ExecResult(TRUE, 0, GitHeader("2", "0"), <<>>),
      ExecResult(TRUE, 0, GitHeader("1", "1"), <<>>),
      ExecResult(TRUE, 0, GitHeader("0", "1") \o GitModifiedLine, <<>>),
      ExecResult(TRUE, 0, GitHeader("0", "1") \o GitUnmergedLine, <<>>),
      ExecResult(TRUE, 0, GitHeader("1", "0") \o GitUntrackedLine, <<>>),
      PlainFailure }

\* cm status --header --head: at the head, behind it, ahead of it.
MenuHeaders ==
    { HeaderOk,
      ExecResult(TRUE, 0, <<"c","s",":","1"," ","h","e","a","d",":","2","\n">>, <<>>),
      ExecResult(TRUE, 0, <<"c","s",":","2"," ","h","e","a","d",":","1","\n">>, <<>>) }

\* cm status: clean, a changed file, a file in a merge, a failed call and a
\* refused one.
MenuPlasticStatuses ==
    { ExecResult(TRUE, 0, <<>>, <<>>),
      ExecResult(TRUE, 0, PlasticLineStart \o <<"C","H","|","f">> \o PlasticLineEnd \o <<"\n">>, <<>>),
      ExecResult(TRUE, 0, PlasticLineStart \o <<"C","H","|","f","|","M","E","R","G","E">>
                              \o PlasticLineEnd \o <<"\n">>, <<>>),
      PlainFailure,
      AuthFailure }

\* The polls whose snapshots the label and the menu are read from.
MenuPollInputs ==
    PollInputs({ e \in ProviderSamples : e.bEnabled },
               GitRuns({NotLaunched}, MenuGitStatuses),
               PlasticRuns({AuthFailure}, {InfoOk, AuthFailure},
                           MenuHeaders \cup {AuthFailure}, MenuPlasticStatuses))

MenuPollWorkerFinish == PollWorkerFinishBy(Step, MenuPollInputs)

\* The menu is opened: it asks the CanExecute delegates of its entries.
MenuOpened ==
    /\ owned
    /\ menu' = [ Fetch  |-> CanExecuteGitCommand(Self),
                 Pull   |-> CanExecuteGitPull(Self),
                 Push   |-> CanExecuteGitPush(Self),
                 Update |-> CanExecutePlasticUpdate(Self),
                 built  |-> TRUE ]
    /\ UNCHANGED << SourceControlStatus, bHasUnsavedAssets, UnsavedAssetCount,
                    SampleUnsavedPackage, LastStatusLabel, LastDirtyCheckSeconds,
                    LastSourceControlCheckSeconds, LastAutoFetchSeconds,
                    LastStatusToastSeconds, bStatusUpdateInFlight, bHasSeenStatusLabel,
                    bAutoFetch, bToastOnStatusChange, now, owned, dialog,
                    pollTasks, cmdTasks, toasts, events, hist >>

MenuNext ==
    \/ PollWorkerStart
    \/ MenuPollWorkerFinish
    \/ PollWorkerReturn
    \/ PollComplete
    \/ Refresh
    \/ MenuOpened

MenuSpec == Init /\ [][MenuNext]_vars

--------------------------------------------------------------------------
(* Properties of the label and the menu (MenuSpec)                         *)

\* Whether Text ends with Suffix.
EndsWith(Text, Suffix) ==
    /\ Len(Text) >= Len(Suffix)
    /\ SubSeq(Text, Len(Text) - Len(Suffix) + 1, Len(Text)) = Suffix

\* The seven states of the label, each with the condition under which the
\* precedence picks it.
LabelStates ==
    LET Status == SourceControlStatus
        bTree == Status.Staged + Status.Unstaged + Status.Untracked > 0
        bFree == ~Status.bHasConflicts /\ ~bHasUnsavedAssets
    IN  << [ Text |-> <<"C","o","n","f","l","i","c","t","s">>,
             Picked |-> Status.bHasConflicts ],
           [ Text |-> <<"U","n","s","a","v","e","d"," ">> \o Itoa(UnsavedAssetCount),
             Picked |-> ~Status.bHasConflicts /\ bHasUnsavedAssets ],
           [ Text |-> <<"D","i","v","e","r","g","e","d">>,
             Picked |-> bFree /\ Status.Ahead > 0 /\ Status.Behind > 0 ],
           [ Text |-> <<"B","e","h","i","n","d"," ">> \o Itoa(Status.Behind),
             Picked |-> bFree /\ Status.Ahead <= 0 /\ Status.Behind > 0 ],
           [ Text |-> <<"C","h","a","n","g","e","s">>,
             Picked |-> bFree /\ Status.Behind <= 0 /\ bTree ],
           [ Text |-> <<"A","h","e","a","d"," ">> \o Itoa(Status.Ahead),
             Picked |-> bFree /\ Status.Behind <= 0 /\ ~bTree /\ Status.Ahead > 0 ],
           [ Text |-> <<"C","l","e","a","n">>,
             Picked |-> bFree /\ Status.Behind <= 0 /\ ~bTree /\ Status.Ahead <= 0 ] >>

\* A poll has just installed the snapshot of a repository whose client
\* answered without asking for a login.
RepoSnapshotInstalled ==
    /\ "SnapshotInstalled" \in events
    /\ SourceControlStatus.bClientAvailable
    /\ ~SourceControlStatus.bAuthRequired
    /\ SourceControlStatus.bRepo

\* C33: for the snapshot of a repository (client available, no login
\* required), the label the widget takes is "<branch> | <state>" with exactly
\* one of the seven states, the one the precedence picks: Conflicts, else
\* "Unsaved N", else Diverged, else "Behind N", else Changes, else "Ahead N",
\* else Clean.
LabelStateByPrecedence ==
    RepoSnapshotInstalled =>
        /\ Cardinality({ k \in 1..7 : LabelStates[k].Picked }) = 1
        /\ \A k \in 1..7 :
              EndsWith(LastStatusLabel, <<" ","|"," ">> \o LabelStates[k].Text)
                  <=> LabelStates[k].Picked

\* A repository that is behind and has a modified file, nothing unsaved: the
\* label says "Behind 1".
LabelStateByPrecedenceWitness ==
    /\ RepoSnapshotInstalled
    /\ ~bHasUnsavedAssets
    /\ SourceControlStatus.Behind = 1 /\ SourceControlStatus.Unstaged = 1
    /\ LastStatusLabel = <<"m"," ","|"," ","B","e","h","i","n","d"," ","1">>

\* The change counts of the snapshot were not obtained: a login is required,
\* or the repository's status call failed and left its error.
CountsNotObtained ==
    \/ SourceControlStatus.bAuthRequired
    \/ SourceControlStatus.bRepo /\ SourceControlStatus.LastError # <<>>

\* C34: when the menu is opened on a snapshot whose change counts were not
\* obtained (authRequired, or isRepo with the error of a failed status call),
\* pull, push and update are all disabled.
UnknownCountsCloseGates ==
    [][ (menu' # menu /\ CountsNotObtained')
            => (~menu'.Pull /\ ~menu'.Push /\ ~menu'.Update) ]_vars

\* C35: when the menu is opened on a snapshot with hasConflicts, pull, push
\* and update are all disabled.
ConflictsCloseGates ==
    [][ (menu' # menu /\ SourceControlStatus'.bHasConflicts)
            => (~menu'.Pull /\ ~menu'.Push /\ ~menu'.Update) ]_vars

--------------------------------------------------------------------------
(* Properties of the snapshot's timestamp (ProbeSpec)                      *)

\* C36: the snapshot a completed poll installs carries the time of that poll
\* as lastUpdateUtc, never the default timestamp, on every provider path (the
\* clock does not move during the one poll considered here).
SnapshotCarriesPollTime ==
    "SnapshotInstalled" \in events =>
        /\ SourceControlStatus.LastUpdateUtc # FDateTimeDefault
        /\ SourceControlStatus.LastUpdateUtc = now

--------------------------------------------------------------------------
(* Commands launched while a command runs                                  *)

\* At most MaxRunning commands are followed at a time.
MaxRunning == 2

\* The polls: a clean Git repository behind its upstream.
RacePollInputs ==
    PollInputs({ e \in ProviderSamples : e.bEnabled /\ GetPreferredProvider(e.bEnabled, e.Name) = "Git" },
               GitRuns({}, {ExecResult(TRUE, 0, GitHeader("0", "1"), <<>>)}),
               {})

\* What the process of a command returns.
RaceResults == { ExecResult(TRUE, 0, <<>>, <<>>), PlainFailure }

RaceInit ==
    /\ \E bAuto \in BOOLEAN : Holds(Construct(bAuto, TRUE, 0))
    /\ menu = NoMenu
    /\ hist = NoHist

RaceStep(s) ==
    /\ Len(s.pollTasks) <= MaxPollTasks
    /\ Len(s.cmdTasks) <= MaxRunning
    /\ Install(s)
    /\ UNCHANGED <<menu, hist>>

\* The active timer fires, a timer period later or, when the editor was busy,
\* an automatic-fetch interval later.
RaceTick ==
    /\ owned
    /\ \E Elapsed \in {TimerPeriod, AutoFetchInterval} :
          /\ now + Elapsed \in CmdClock
          /\ RaceStep(UpdateState([Self EXCEPT !.now = now + Elapsed], 0))

RaceGitFetch == GitFetchBy(RaceStep)

RacePollWorkerStart == PollWorkerStartBy(RaceStep)

RacePollWorkerFinish == PollWorkerFinishBy(RaceStep, RacePollInputs)

RacePollWorkerReturn == PollWorkerReturnBy(RaceStep)

RacePollComplete == PollCompleteBy(RaceStep)

RaceCmdWorkerStart == CmdWorkerStartBy(RaceStep)

RaceCmdWorkerFinish == CmdWorkerFinishBy(RaceStep, RaceResults)

RaceCmdWorkerReturn == CmdWorkerReturnBy(RaceStep)

RaceCmdComplete == CmdCompleteBy(RaceStep)

RaceNext ==
    \/ RaceTick
    \/ RaceGitFetch
    \/ RacePollWorkerStart
    \/ RacePollWorkerFinish
    \/ RacePollWorkerReturn
    \/ RacePollComplete
    \/ RaceCmdWorkerStart
    \/ RaceCmdWorkerFinish
    \/ RaceCmdWorkerReturn
    \/ RaceCmdComplete

RaceSpec == RaceInit /\ [][RaceNext]_vars

--------------------------------------------------------------------------
(* Properties of concurrent commands (RaceSpec)                            *)

\* The commands whose process is running.
RunningCommands == { i \in 1..Len(cmdTasks) : cmdTasks[i].phase = "running" }

\* C37: at most one command of the executor, manual or automatic, is running
\* at any time.
OneCommandAtATime == Cardinality(RunningCommands) <= 1

--------------------------------------------------------------------------
(* One command and the polls around it, with the timer firing for as long  *)
(* as the widget lives                                                     *)

\* The longest time the handlers compare a stamp against.
LongAgo == Max(GitInterval, Max(DirtyInterval, MinInterval))

\* The widget with its clock read relative to now: the clock and the stamps
\* are moved back by the time passed since StartSeconds, and a stamp older
\* than LongAgo is kept at LongAgo before now.  The handlers compare a stamp
\* only through its distance from now, against intervals of at most LongAgo
\* (automatic fetch, with its longer interval, is off here), so they cannot
\* tell the two apart.
Rewound(s) ==
    LET Passed == s.now - StartSeconds
        Back(t) == Max(t - Passed, StartSeconds - LongAgo)
    IN  [s EXCEPT !.now = StartSeconds,
                  !.LastDirtyCheckSeconds = Back(@),
                  !.LastSourceControlCheckSeconds = Back(@),
                  !.LastAutoFetchSeconds = Back(@),
                  !.LastStatusToastSeconds = Back(@)]

\* The history of the one command followed: idle until it is launched, then
\* launched; waiting once its completion handler has run, probing once a poll
\* has started its probes after that, fresh once that poll's snapshot is
\* installed.  bDropped: the completion handler's request was dropped.
CommandAt(phase, bDropped) == [phase |-> phase, bDropped |-> bDropped]

\* Toasts on status change are off; nothing is unsaved.
RefreshInit ==
    /\ Holds(Rewound(Construct(FALSE, FALSE, 0)))
    /\ menu = NoMenu
    /\ hist = CommandAt("idle", FALSE)

\* A step of the widget: the handler's result w, with the history h.
RefreshStep(w, h) ==
    \E r \in {Rewound(w)} :
        /\ Len(r.pollTasks) <= MaxPollTasks
        /\ Len(r.cmdTasks) <= MaxCmdTasks
        /\ Install(r)
        /\ hist' = h
        /\ UNCHANGED menu

\* A step that leaves the history as it is.
RefreshKept(k) == RefreshStep(k, hist)

\* The active timer fires, a timer period later.
RefreshTick ==
    /\ owned
    /\ RefreshKept(UpdateState([Self EXCEPT !.now = now + TimerPeriod], 0))

\* The user chooses Refresh.
RefreshChosen == Interactive /\ RefreshKept(ExecuteRefresh(Self, 0))

RefreshLaunched(l) == RefreshStep(l, CommandAt("launched", FALSE))

\* The user chooses Fetch, once.
RefreshGitFetch == hist.phase = "idle" /\ GitFetchBy(RefreshLaunched)

RefreshCmdWorkerStart == CmdWorkerStartBy(RefreshKept)

RefreshCmdWorkerFinish == CmdWorkerFinishBy(RefreshKept, RaceResults)

RefreshCmdWorkerReturn == CmdWorkerReturnBy(RefreshKept)

RefreshCompleted(c) == RefreshStep(c, CommandAt("waiting", "RequestDropped" \in c.events))

\* The completion handler of the command runs.
RefreshCmdComplete == CmdCompleteBy(RefreshCompleted)

RefreshProbing(p) ==
    RefreshStep(p, IF hist.phase = "waiting" THEN CommandAt("probing", hist.bDropped) ELSE hist)

RefreshPollWorkerStart == PollWorkerStartBy(RefreshProbing)

\* The polls: a Git repository whose status call writes nothing, or fails.
RefreshPollInputs ==
    PollInputs({ e \in ProviderSamples : e.bEnabled /\ GetPreferredProvider(e.bEnabled, e.Name) = "Git" },
               GitRuns({}, {ExecResult(TRUE, 0, <<>>, <<>>), PlainFailure}),
               {})

RefreshPollWorkerFinish == PollWorkerFinishBy(RefreshKept, RefreshPollInputs)

RefreshPollWorkerReturn == PollWorkerReturnBy(RefreshKept)

RefreshInstalled(n) ==
    RefreshStep(n, IF hist.phase = "probing" THEN CommandAt("fresh", hist.bDropped) ELSE hist)

RefreshPollComplete == PollCompleteBy(RefreshInstalled)

\* The thread pool runs the poll's worker, the CLI calls return, and the game
\* thread runs the reply.
RefreshPollProgress ==
    \/ RefreshPollWorkerStart
    \/ RefreshPollWorkerFinish
    \/ RefreshPollWorkerReturn
    \/ RefreshPollComplete

RefreshNext ==
    \/ RefreshTick
    \/ RefreshChosen
    \/ RefreshGitFetch
    \/ RefreshCmdWorkerStart
    \/ RefreshCmdWorkerFinish
    \/ RefreshCmdWorkerReturn
    \/ RefreshCmdComplete
    \/ RefreshPollProgress

RefreshSpec ==
    RefreshInit /\ [][RefreshNext]_vars /\ WF_vars(RefreshTick) /\ WF_vars(RefreshPollProgress)

--------------------------------------------------------------------------
(* Properties of the refresh after a command (RefreshSpec)                 *)

\* C38: once the completion handler of a command has run, a poll whose probes
\* start after it is eventually run and its snapshot installed, also when the
\* handler's own request was dropped because a poll was in flight (the widget
\* lives, the CLI calls return, the timer keeps firing).
RefreshNeverLost == (hist.phase = "waiting") ~> (hist.phase = "fresh")

\* The snapshot of a poll that probed after a command whose request for a
\* refresh had been dropped.
RefreshNeverLostWitness ==
    /\ hist.phase = "fresh" /\ hist.bDropped
    /\ "SnapshotInstalled" \in events
    /\ ~bStatusUpdateInFlight

===========================================================================
